---- MODULE Spec2Model ----
(***************************************************************************)
(* A model of the infopoisk search engine: the varbyte/delta codec, the    *)
(* SPIMI index builder, the compressed index reader and the boolean query  *)
(* engine with phrase and proximity operands.                              *)
(*                                                                         *)
(* Text is modelled as a sequence of characters, a character being a       *)
(* one-symbol string.  Bytes are integers in 0..255.                       *)
(***************************************************************************)
EXTENDS Integers, Sequences, FiniteSets, TLC

(***************************************************************************)
(* Bounds of the model.                                                    *)
(***************************************************************************)
\* documents drawn from the source during one modelled build
MaxDocs == 3
\* tokens in one source document of a modelled build
MaxTokens == 2
\* largest proximity distance written in a modelled query
MaxDist == 3
\* BLOCK_SIZE of indexer.py:22 is 5000; the model spills every BlockSize
\* documents so that builds of MaxDocs documents spill and merge blocks
BlockSize == 2
\* buffer_size of search.py:74 is 1 MiB; the model reads BufferSize bytes per
\* read so that posting blocks are longer than one read
BufferSize == 12

\* the longest malformed query, in lexer tokens
MaxQueryTokens == 3

\* the longest list of numbers given to the codec
MaxNumbers == 3
\* calls of search of app.py made on one engine process
MaxCalls == 2
MaxPostings == 3

(***************************************************************************)
(* Generic helpers on sequences and sets.                                  *)
(***************************************************************************)
Range(s) == {s[i] : i \in 1..Len(s)}

Min(a, b) == IF a <= b THEN a ELSE b

\* s[from..] with from 1-based; empty when from > Len(s)
Drop(s, n) == SubSeq(s, n + 1, Len(s))

Take(s, n) == SubSeq(s, 1, Min(n, Len(s)))

RECURSIVE Flatten(_)
Flatten(ss) == IF ss = <<>> THEN <<>> ELSE Head(ss) \o Flatten(Tail(ss))

\* the elements of a finite set of integers in ascending order: sorted(...)
RECURSIVE SortedInts(_)
SortedInts(S) ==
    IF S = {} THEN <<>>
    ELSE LET m == CHOOSE x \in S : \A y \in S : x <= y
         IN <<m>> \o SortedInts(S \ {m})

\* sorted(list) for a list of integers (duplicates kept)
RECURSIVE SortedSeq(_)
SortedSeq(s) ==
    IF s = <<>> THEN <<>>
    ELSE LET i == CHOOSE k \in 1..Len(s) : \A j \in 1..Len(s) : s[k] <= s[j]
         IN <<s[i]>> \o SortedSeq(SubSeq(s, 1, i - 1) \o SubSeq(s, i + 1, Len(s)))

(***************************************************************************)
(* Characters.  CharCode is the code point of a character; every character *)
(* of the model is ASCII, so a character is one UTF-8 byte, except the     *)
(* macro character "v254", which stands for a run of 254 letters 'v' and   *)
(* is how the model writes terms longer than 255 bytes.  No other          *)
(* character of the model is 'v', so comparing "v254" by the code of 'v'   *)
(* is the bytewise comparison of the strings it stands for.  The guillemets *)
(* "LAQUO" and "RAQUO" are characters of two bytes (0xC2 0xAB, 0xC2 0xBB). *)
(*                                                                         *)
(* A Python bytes value is written as the characters whose encodings it    *)
(* holds.  Where a slice cut an encoding, the bytes kept of it are written *)
(* with two units that are no characters of a str: "v" is one byte 'v' of  *)
(* a cut "v254", and "xC2" is the byte 0xC2 alone, the first byte of a cut *)
(* guillemet, which no UTF-8 decoder accepts.                              *)
(***************************************************************************)
CharCode(c) ==
    CASE c = "\t" -> 9   [] c = "\n" -> 10  [] c = " " -> 32  [] c = "!" -> 33
      [] c = "\"" -> 34  [] c = "&" -> 38   [] c = "(" -> 40  [] c = ")" -> 41
      [] c = "/" -> 47   [] c = "0" -> 48   [] c = "1" -> 49  [] c = "2" -> 50
      [] c = "3" -> 51   [] c = "4" -> 52   [] c = "5" -> 53  [] c = "6" -> 54
      [] c = "7" -> 55   [] c = "8" -> 56   [] c = "9" -> 57  [] c = ":" -> 58
      [] c = "A" -> 65   [] c = "E" -> 69   [] c = "H" -> 72  [] c = "M" -> 77
      [] c = "N" -> 78   [] c = "P" -> 80   [] c = "R" -> 82  [] c = "S" -> 83
      [] c = "U" -> 85
      [] c = "a" -> 97   [] c = "b" -> 98   [] c = "c" -> 99  [] c = "d" -> 100
      [] c = "e" -> 101  [] c = "f" -> 102  [] c = "g" -> 103 [] c = "h" -> 104
      [] c = "i" -> 105  [] c = "k" -> 107  [] c = "l" -> 108 [] c = "m" -> 109
      [] c = "n" -> 110  [] c = "o" -> 111  [] c = "p" -> 112 [] c = "q" -> 113
      [] c = "r" -> 114  [] c = "s" -> 115  [] c = "t" -> 116 [] c = "u" -> 117
      [] c = "v254" -> 118 [] c = "w" -> 119 [] c = "x" -> 120  [] c = "y" -> 121 [] c = "z" -> 122
      [] c = "|" -> 124  [] c = "LAQUO" -> 171 [] c = "RAQUO" -> 187

\* the number of bytes of the UTF-8 encoding of a character (1 for a unit
\* of a cut encoding)
CharBytes(c) == IF c = "v254" THEN 254 ELSE IF c \in {"LAQUO", "RAQUO"} THEN 2 ELSE 1

\* len(s.encode('utf-8')): the units of s counted by their numbers of bytes
UnitsOf(s, n) == Cardinality({i \in 1..Len(s) : CharBytes(s[i]) = n})

ByteLen(s) == UnitsOf(s, 1) + 2 * UnitsOf(s, 2) + 254 * UnitsOf(s, 254)

\* Python's str.lower() on one character
Lower(c) ==
    CASE c = "A" -> "a" [] c = "E" -> "e" [] c = "H" -> "h" [] c = "M" -> "m"
      [] c = "N" -> "n" [] c = "P" -> "p" [] c = "R" -> "r" [] c = "S" -> "s"
      [] c = "U" -> "u" [] c = "C" -> "c" [] c = "D" -> "d" [] c = "O" -> "o"
      [] OTHER -> c

\* s < t in Python's string order (code point by code point, a proper prefix first)
RECURSIVE StrLess(_, _)
StrLess(s, t) ==
    IF t = <<>> THEN FALSE
    ELSE IF s = <<>> THEN TRUE
    ELSE IF Head(s) = Head(t) THEN StrLess(Tail(s), Tail(t))
    ELSE CharCode(Head(s)) < CharCode(Head(t))

\* sorted(S) for a finite set of strings
RECURSIVE SortedStrs(_)
SortedStrs(S) ==
    IF S = {} THEN <<>>
    ELSE LET m == CHOOSE x \in S : \A y \in S \ {x} : StrLess(x, y)
         IN <<m>> \o SortedStrs(S \ {m})

\* byte k of the encoding of the unit c
UnitByte(c, k) ==
    CASE c \in {"v254", "v"} -> 118
      [] c = "LAQUO" -> IF k = 1 THEN 194 ELSE 171
      [] c = "RAQUO" -> IF k = 1 THEN 194 ELSE 187
      [] c = "xC2" -> 194
      [] OTHER -> CharCode(c)

\* the bytes of a bytes value of the model, one number per byte
Bytes(s) ==
    [j \in 1..ByteLen(s) |->
        LET i == CHOOSE k \in 1..Len(s) :
                     ByteLen(SubSeq(s, 1, k - 1)) < j /\ j <= ByteLen(SubSeq(s, 1, k))
        IN UnitByte(s[i], j - ByteLen(SubSeq(s, 1, i - 1)))]

\* x < y for two sequences of numbers, a proper prefix first
SeqLess(x, y) ==
    LET differ == {i \in 1..Min(Len(x), Len(y)) : x[i] # y[i]} IN
    IF differ = {} THEN Len(x) < Len(y)
    ELSE LET k == CHOOSE i \in differ : \A j \in differ : i <= j IN x[k] < y[k]

\* s < t bytewise for two bytes values: equal leading units hold equal bytes
RECURSIVE BytesLess(_, _)
BytesLess(s, t) ==
    IF t = <<>> THEN FALSE
    ELSE IF s = <<>> THEN TRUE
    ELSE IF Head(s) = Head(t) THEN BytesLess(Tail(s), Tail(t))
    ELSE SeqLess(Bytes(s), Bytes(t))

\* s.startswith(p)
StartsWith(s, p) == Len(s) >= Len(p) /\ SubSeq(s, 1, Len(p)) = p

(***************************************************************************)
(* compression.py: varbyte and delta coding.  A raised exception is the    *)
(* record [ok |-> FALSE].                                                  *)
(***************************************************************************)
RECURSIVE VarbyteLoop(_)
VarbyteLoop(number) ==
    IF number >= 128
    THEN <<(number % 128) + 128>> \o VarbyteLoop(number \div 128)
    ELSE <<number>>

\* a variant that writes a number below 128 in two bytes
encode_varbyte_Padded(number) ==
    IF number = 0 THEN <<0>>
    ELSE IF number < 128 THEN <<number + 128, 0>>
    ELSE VarbyteLoop(number)

\* encode_varbyte(number) for number >= 0 (a negative number raises ValueError)
encode_varbyte(number) == IF number = 0 THEN <<0>> ELSE VarbyteLoop(number)

encode_varbyte_raises(number) == number < 0

\* the while-loop of decode_varbyte_stream; mult is 2^shift
RECURSIVE DecodeLoop(_, _, _, _)
DecodeLoop(data, offset, number, mult) ==
    IF offset >= Len(data)
    THEN [ok |-> FALSE, number |-> 0, offset |-> offset]
    ELSE LET byte == data[offset + 1] IN
         IF byte < 128
         THEN [ok |-> TRUE, number |-> number + (byte % 128) * mult, offset |-> offset + 1]
         ELSE DecodeLoop(data, offset + 1, number + (byte % 128) * mult, mult * 128)

\* decode_varbyte_stream(data, offset): offset is 0-based as in the code
decode_varbyte_stream(data, offset) == DecodeLoop(data, offset, 0, 1)

\* a variant that writes the numbers themselves
encode_delta_Raw(numbers) == numbers

encode_delta(numbers) ==
    [i \in 1..Len(numbers) |-> IF i = 1 THEN numbers[1] ELSE numbers[i] - numbers[i - 1]]

RECURSIVE DeltaSum(_, _)
DeltaSum(deltas, i) == IF i = 0 THEN 0 ELSE DeltaSum(deltas, i - 1) + deltas[i]

\* a variant that returns the gaps as they are
decode_delta_NoSum(deltas) == deltas

decode_delta(deltas) == [i \in 1..Len(deltas) |-> DeltaSum(deltas, i)]

(***************************************************************************)
(* The tokenizer.  The tokenizer binary is an external process; it is      *)
(* modelled as the lowercased whitespace split of its input line, which    *)
(* answers one token per line.  TokenizerClient_tokenize is the adapter of *)
(* tokenizer_wrapper.py around a live process.                             *)
(***************************************************************************)
IsSpace(c) == c \in {" ", "\t", "\n"}

\* the maximal runs of non-whitespace characters of text, in order
RECURSIVE SplitWords(_, _)
SplitWords(text, cur) ==
    IF text = <<>> THEN (IF cur = <<>> THEN <<>> ELSE <<cur>>)
    ELSE IF IsSpace(Head(text))
         THEN (IF cur = <<>> THEN <<>> ELSE <<cur>>) \o SplitWords(Tail(text), <<>>)
         ELSE SplitWords(Tail(text), Append(cur, Head(text)))

ExternalTokenizer(line) ==
    SplitWords([i \in 1..Len(line) |-> Lower(line[i])], <<>>)

\* a variant that writes the text as it is
Sanitize_Kept(text) == text

\* text.replace('\n', ' ')
Sanitize(text) == [i \in 1..Len(text) |-> IF text[i] = "\n" THEN " " ELSE text[i]]

\* line.strip()
RECURSIVE LStrip(_)
LStrip(s) == IF s # <<>> /\ IsSpace(Head(s)) THEN LStrip(Tail(s)) ELSE s

RECURSIVE RStrip(_)
RStrip(s) ==
    IF s # <<>> /\ IsSpace(s[Len(s)]) THEN RStrip(SubSeq(s, 1, Len(s) - 1)) ELSE s

Strip(s) == RStrip(LStrip(s))

\* the read loop of tokenize: stripped non-empty lines up to the sentinel;
\* the lines passed are those printed before the __END_DOC__ line
RECURSIVE ReadTokenLines(_)
ReadTokenLines(lines) ==
    IF lines = <<>> THEN <<>>
    ELSE LET line == Strip(Head(lines)) IN
         IF line # <<>> THEN <<line>> \o ReadTokenLines(Tail(lines))
         ELSE ReadTokenLines(Tail(lines))

TokenizerClient_tokenize(text) ==
    IF text = <<>> THEN <<>>
    ELSE ReadTokenLines(ExternalTokenizer(Sanitize(text)))

\* the child process as the client holds it: pending is set once a request
\* line could not be flushed to the dead process and stays in the buffer of
\* process.stdin
LiveTokenizer == [alive |-> TRUE, pending |-> FALSE]

\* the process of a build that has returned: close() has ended it
ClosedTokenizer == [alive |-> FALSE, pending |-> FALSE]

\* the read loop of tokenize on a process that dies once it has printed
\* `printed` lines of its answer; readline then returns '' and the loop breaks
\* (lines 30-39).  The process outlives the call when printed exceeds the
\* token lines of the answer: the sentinel line is printed too.
AnswerRead(p, answer, printed) ==
    IF printed > Len(answer) THEN [tokens |-> ReadTokenLines(answer), p |-> p]
    ELSE [tokens |-> ReadTokenLines(Take(answer, printed)),
          p |-> [p EXCEPT !.alive = FALSE]]

\* TokenizerClient.tokenize(text) on the process p: [tokens, p].  A write to
\* a dead process raises BrokenPipeError, which lines 26-27 answer with [].
tokenize_on(p, text, printed) ==
    IF text = <<>> THEN [tokens |-> <<>>, p |-> p]
    ELSE IF ~p.alive THEN [tokens |-> <<>>, p |-> [p EXCEPT !.pending = TRUE]]
    ELSE AnswerRead(p, ExternalTokenizer(Sanitize(text)), printed)

\* the sentinel line
END_DOC == <<"_", "_", "E", "N", "D", "_", "D", "O", "C", "_", "_">>

\* what tokenize writes to process.stdin for a non-empty text (lines 21, 24)
RequestLine(text) == Sanitize(text) \o <<"\n">>

\* the process side: the newline-terminated lines of the bytes it reads
RECURSIVE InputLines(_, _)
InputLines(bytes, cur) ==
    IF bytes = <<>> THEN <<>>
    ELSE IF Head(bytes) = "\n" THEN <<cur>> \o InputLines(Tail(bytes), <<>>)
    ELSE InputLines(Tail(bytes), Append(cur, Head(bytes)))

\* the process side: each input line is answered with its token lines and
\* one sentinel line
TokenizerAnswers(bytes) ==
    Flatten([i \in 1..Len(InputLines(bytes, <<>>)) |->
                ExternalTokenizer(InputLines(bytes, <<>>)[i]) \o <<END_DOC>>])

\* the read loop of tokenize on the lines waiting in process.stdout (lines
\* 29-39): [tokens, unread, ended]; ended is FALSE when the lines ran out
\* before a sentinel, where readline waits for the live process
RECURSIVE ReadResponse(_)
ReadResponse(lines) ==
    IF lines = <<>> THEN [tokens |-> <<>>, unread |-> <<>>, ended |-> FALSE]
    ELSE IF Strip(Head(lines)) = END_DOC
         THEN [tokens |-> <<>>, unread |-> Tail(lines), ended |-> TRUE]
    ELSE [ReadResponse(Tail(lines)) EXCEPT
             !.tokens = (IF Strip(Head(lines)) # <<>> THEN <<Strip(Head(lines))>>
                         ELSE <<>>) \o @]

\* TokenizerClient.tokenize(text) on a live process whose stdout holds the
\* lines unread: [text, written, tokens, unread, ended]
tokenize_piped(unread, text) ==
    IF text = <<>>
    THEN [text |-> text, written |-> <<>>, tokens |-> <<>>, unread |-> unread,
          ended |-> TRUE]
    ELSE [text |-> text, written |-> RequestLine(text),
          tokens |-> ReadResponse(unread \o TokenizerAnswers(RequestLine(text))).tokens,
          unread |-> ReadResponse(unread \o TokenizerAnswers(RequestLine(text))).unread,
          ended |-> ReadResponse(unread \o TokenizerAnswers(RequestLine(text))).ended]

\* TokenizerClient.close(): process.stdin.close() flushes the pending request
\* line and raises BrokenPipeError
close_raises(p) == p.pending

\* the process after TokenizerClient.close() (lines 41-46): terminate() and
\* wait() end a live process; when stdin.close() raises, the process had
\* exited before
closed(p) == [p EXCEPT !.alive = FALSE]

(***************************************************************************)
(* Maps (Python dicts) are functions with a finite domain.                 *)
(***************************************************************************)
EmptyMap == [x \in {} |-> 0]

MapPut(m, k, v) == (k :> v) @@ m

MapGet(m, k, default) == IF k \in DOMAIN m THEN m[k] ELSE default

\* a variant that drops what d1 held
MapUpdate_Replace(d1, d2) == d2

\* d1.update(d2)
MapUpdate(d1, d2) == d2 @@ d1

(***************************************************************************)
(* indexer.py: the builder.                                                *)
(***************************************************************************)
MAGIC_DOCS == <<68, 79, 67, 83>>

MAGIC_DICT == <<68, 73, 67, 84>>

MAGIC_POST == <<80, 79, 83, 84>>

VERSION == 3

\* struct.pack('<H', n)
PackU16(n) == <<n % 256, (n \div 256) % 256>>

\* the first k bytes of the encoding of the character c, 0 < k < CharBytes(c)
LeadBytes(c, k) == IF c = "v254" THEN [i \in 1..k |-> "v"] ELSE <<"xC2">>

\* s.encode('utf-8')[:limit]: the slice cuts bytes, so of a character that
\* straddles the limit the leading bytes stay
RECURSIVE TruncateBytes(_, _)
TruncateBytes(s, limit) ==
    IF s = <<>> \/ limit <= 0 THEN <<>>
    ELSE IF CharBytes(Head(s)) <= limit
         THEN <<Head(s)>> \o TruncateBytes(Tail(s), limit - CharBytes(Head(s)))
    ELSE LeadBytes(Head(s), limit)

\* bytes.decode('utf-8') returns (it raises UnicodeDecodeError on a cut guillemet)
Decodable(bytes) == \A i \in 1..Len(bytes) : bytes[i] # "xC2"

\* local_index[token][doc_id].append(pos), local_index being a defaultdict
AddPosition(index, token, doc_id, pos) ==
    LET doc_map == MapGet(index, token, EmptyMap)
        positions == MapGet(doc_map, doc_id, <<>>)
    IN MapPut(index, token, MapPut(doc_map, doc_id, Append(positions, pos)))

\* for pos, token in enumerate(tokens): ... ; pos is 0-based
RECURSIVE AddTokens(_, _, _, _)
AddTokens(index, tokens, doc_id, pos) ==
    IF pos >= Len(tokens) THEN index
    ELSE AddTokens(AddPosition(index, tokens[pos + 1], doc_id, pos), tokens, doc_id, pos + 1)

\* save_temp_block: the file holds (term, index[term]) in sorted term order
save_temp_block(index) ==
    LET sorted_terms == SortedStrs(DOMAIN index)
    IN [i \in 1..Len(sorted_terms) |-> <<sorted_terms[i], index[sorted_terms[i]]>>]

\* the bytes f_post.write() appends for the positions of one document
PositionBytes(positions) ==
    LET pos_deltas == encode_delta(positions)
    IN encode_varbyte(Len(positions))
       \o Flatten([i \in 1..Len(pos_deltas) |-> encode_varbyte(pos_deltas[i])])

\* the postings block of write_term_entry
PostingBlock(doc_map) ==
    LET doc_ids == SortedInts(DOMAIN doc_map)
        doc_deltas == encode_delta(doc_ids)
    IN encode_varbyte(Len(doc_ids))
       \o Flatten([i \in 1..Len(doc_ids) |->
               encode_varbyte(doc_deltas[i])
               \o PositionBytes(SortedSeq(doc_map[doc_ids[i]]))])

\* write_term_entry: files is [dict |-> entries written, post |-> bytes written]
write_term_entry(term, doc_map, files) ==
    LET offset == Len(files.post)
        term_bytes == TruncateBytes(term, 255)
    IN [dict |-> Append(files.dict,
                    [term_len |-> ByteLen(term_bytes), term |-> term_bytes,
                     offset |-> offset, doc_count |-> Cardinality(DOMAIN doc_map)]),
        post |-> files.post \o PostingBlock(doc_map)]

\* heapq.merge(*iterators, key=term): the least head first, the earlier
\* iterator first among equal keys
RECURSIVE MergeStreams(_)
MergeStreams(streams) ==
    LET live == {i \in 1..Len(streams) : streams[i] # <<>>} IN
    IF live = {} THEN <<>>
    ELSE LET i == CHOOSE k \in live : \A j \in live \ {k} :
                     \/ StrLess(streams[k][1][1], streams[j][1][1])
                     \/ (streams[k][1][1] = streams[j][1][1] /\ k < j)
         IN <<streams[i][1]>> \o MergeStreams([streams EXCEPT ![i] = Tail(streams[i])])

\* the for-loop of merge_blocks over merged_stream; cur is <<>> for
\* current_term None and otherwise <<current_term, current_docs>>
RECURSIVE MergeLoop(_, _, _)
MergeLoop(stream, cur, files) ==
    IF stream = <<>>
    THEN (IF cur = <<>> THEN files ELSE write_term_entry(cur[1], cur[2], files))
    ELSE LET term == stream[1][1]
             doc_map == stream[1][2]
         IN IF cur = <<>> THEN MergeLoop(Tail(stream), <<term, doc_map>>, files)
            ELSE IF term # cur[1]
                 THEN MergeLoop(Tail(stream), <<term, doc_map>>,
                                write_term_entry(cur[1], cur[2], files))
                 ELSE MergeLoop(Tail(stream), <<term, MapUpdate(cur[2], doc_map)>>, files)

\* merge_blocks: reads block_0 .. block_{num_blocks-1} of temp and returns
\* the contents of index.dict and index.postings
merge_blocks(temp, num_blocks) ==
    LET iterators == [i \in 1..num_blocks |-> temp[i - 1]]
        files == MergeLoop(MergeStreams(iterators), <<>>,
                           [dict |-> <<>>, post |-> MAGIC_POST \o PackU16(VERSION)])
    IN [dict |-> [magic |-> MAGIC_DICT, version |-> VERSION,
                  count |-> Len(files.dict), entries |-> files.dict],
        post |-> files.post]

\* str.encode('utf-8')[:65535] of a url or title of the model (all short)
write_docs_index(infos) ==
    [magic |-> MAGIC_DOCS, version |-> VERSION, count |-> Len(infos),
     records |-> [i \in 1..Len(infos) |->
                    [url |-> TruncateBytes(infos[i][1], 65535),
                     title |-> IF infos[i][2] # <<>>
                               THEN TruncateBytes(infos[i][2], 65535) ELSE <<>>]]]

(***************************************************************************)
(* search.py: CompressedIndexReader.  A raised exception is ok |-> FALSE.  *)
(***************************************************************************)
\* _load_docs: the list doc_infos
load_docs(file) ==
    IF file.magic # MAGIC_DOCS THEN [ok |-> FALSE, doc_infos |-> <<>>]
    ELSE IF \E i \in 1..file.count :
               \/ ~Decodable(file.records[i].url)
               \/ (file.version >= 3 /\ ~Decodable(file.records[i].title))
         THEN [ok |-> FALSE, doc_infos |-> <<>>]
    ELSE [ok |-> TRUE,
          doc_infos |-> [i \in 1..file.count |->
              [url |-> file.records[i].url,
               title |-> IF file.version >= 3 THEN file.records[i].title ELSE <<>>]]]

\* the for-loop of _load_dict: self.term_dict[term] = (offset, doc_count)
RECURSIVE LoadEntries(_, _)
LoadEntries(entries, term_dict) ==
    IF entries = <<>> THEN term_dict
    ELSE LoadEntries(Tail(entries),
             MapPut(term_dict, Head(entries).term,
                    [offset |-> Head(entries).offset,
                     doc_count |-> Head(entries).doc_count]))

load_dict(file) ==
    IF file.magic # MAGIC_DICT THEN [ok |-> FALSE, term_dict |-> EmptyMap]
    ELSE IF \E i \in 1..Min(file.count, Len(file.entries)) :
               ~Decodable(file.entries[i].term)
         THEN [ok |-> FALSE, term_dict |-> EmptyMap]
    ELSE [ok |-> TRUE, term_dict |-> LoadEntries(Take(file.entries, file.count), EmptyMap)]

\* self.post_file.read(n) at cursor fpos
FileRead(file, fpos, n) == SubSeq(file, fpos + 1, Min(fpos + n, Len(file)))

\* a variant whose refill keeps only the fresh chunk
Refill_Dropping(file, g, margin) ==
    IF g.ptr >= Len(g.buffer) - margin
    THEN LET new_chunk == FileRead(file, g.fpos, BufferSize) IN
         IF new_chunk # <<>>
         THEN [buffer |-> new_chunk, ptr |-> 0, fpos |-> g.fpos + Len(new_chunk)]
         ELSE g
    ELSE g

\* "if ptr >= len(buffer) - margin: new_chunk = read(buffer_size); if new_chunk: ..."
\* g is [buffer, ptr, fpos]
Refill(file, g, margin) ==
    IF g.ptr >= Len(g.buffer) - margin
    THEN LET new_chunk == FileRead(file, g.fpos, BufferSize) IN
         IF new_chunk # <<>>
         THEN [buffer |-> Drop(g.buffer, g.ptr) \o new_chunk, ptr |-> 0,
               fpos |-> g.fpos + Len(new_chunk)]
         ELSE g
    ELSE g

\* the inner loop "for _ in range(freq)" of get_postings
RECURSIVE PositionsLoop(_, _, _, _, _)
PositionsLoop(file, g, freq, curr_pos, positions) ==
    IF freq = 0 THEN [ok |-> TRUE, g |-> g, positions |-> positions]
    ELSE LET g1 == Refill(file, g, 5)
             d == decode_varbyte_stream(g1.buffer, g1.ptr)
         IN IF ~d.ok THEN [ok |-> FALSE, g |-> g1, positions |-> positions]
            ELSE PositionsLoop(file, [g1 EXCEPT !.ptr = d.offset], freq - 1,
                               curr_pos + d.number, Append(positions, curr_pos + d.number))

\* the outer loop "for _ in range(doc_count)" of get_postings
RECURSIVE DocsLoop(_, _, _, _, _)
DocsLoop(file, g, doc_count, curr_doc_id, result) ==
    IF doc_count = 0 THEN [ok |-> TRUE, map |-> result, fpos |-> g.fpos]
    ELSE LET g1 == Refill(file, g, 10)
             dd == decode_varbyte_stream(g1.buffer, g1.ptr)
         IN IF ~dd.ok THEN [ok |-> FALSE, map |-> EmptyMap, fpos |-> g1.fpos]
            ELSE LET fr == decode_varbyte_stream(g1.buffer, dd.offset) IN
                 IF ~fr.ok THEN [ok |-> FALSE, map |-> EmptyMap, fpos |-> g1.fpos]
                 ELSE LET pl == PositionsLoop(file, [g1 EXCEPT !.ptr = fr.offset],
                                              fr.number, 0, <<>>)
                      IN IF ~pl.ok THEN [ok |-> FALSE, map |-> EmptyMap, fpos |-> pl.g.fpos]
                         ELSE DocsLoop(file, pl.g, doc_count - 1, curr_doc_id + dd.number,
                                       MapPut(result, curr_doc_id + dd.number, pl.positions))

\* get_postings(term) on a reader with dictionary term_dict over the postings
\* file: [ok, map, fpos], fpos the cursor the call leaves (cursor on entry when
\* nothing is read)
get_postings(term_dict, file, term, cursor) ==
    IF term \notin DOMAIN term_dict THEN [ok |-> TRUE, map |-> EmptyMap, fpos |-> cursor]
    ELSE LET offset == term_dict[term].offset
             buffer == FileRead(file, offset, BufferSize)
         IN IF buffer = <<>> THEN [ok |-> TRUE, map |-> EmptyMap, fpos |-> offset]
            ELSE LET dc == decode_varbyte_stream(buffer, 0) IN
                 IF ~dc.ok THEN [ok |-> FALSE, map |-> EmptyMap, fpos |-> offset + Len(buffer)]
                 ELSE DocsLoop(file,
                               [buffer |-> buffer, ptr |-> dc.offset,
                                fpos |-> offset + Len(buffer)],
                               dc.number, 0, EmptyMap)

(***************************************************************************)
(* get_postings as the steps of one thread between its operations on the   *)
(* shared handle self.post_file: seek (line 72), the first read (line 75)  *)
(* and the refill reads (lines 88, 102).  A frame holds the locals of the  *)
(* call.                                                                   *)
(***************************************************************************)
NoFetch ==
    [stage |-> "idle", term |-> <<>>, buffer |-> <<>>, ptr |-> 0, docs_left |-> 0,
     curr_doc_id |-> 0, result |-> EmptyMap, inner |-> FALSE, pos_left |-> 0,
     curr_pos |-> 0, positions |-> <<>>, checked |-> FALSE, overlapped |-> FALSE,
     calls |-> 0]

\* a variant that leaves the cursor where it is
SeekTo_Kept(offset, cur) == cur

\* self.post_file.seek(offset): the cursor after it
SeekTo(offset, cur) == offset

\* the call runs on from its locals up to its next read of the file, its
\* return ("done") or an exception of the decoder ("raised"); checked says
\* that the refill test at the top of the current iteration has been passed.
\* When the decode of freq raises (line 96), lines 93-94 have run: the frame
\* holds the ptr and the curr_doc_id they assigned
RECURSIVE RunFrame(_)
RunFrame(f) ==
    IF f.inner
    THEN IF f.pos_left = 0
         THEN RunFrame([f EXCEPT !.inner = FALSE, !.docs_left = @ - 1,
                                 !.result = MapPut(@, f.curr_doc_id, f.positions)])
         ELSE IF ~f.checked /\ f.ptr >= Len(f.buffer) - 5
         THEN [f EXCEPT !.stage = "refill"]
         ELSE IF ~decode_varbyte_stream(f.buffer, f.ptr).ok
         THEN [f EXCEPT !.stage = "raised"]
         ELSE RunFrame([f EXCEPT
                  !.ptr = decode_varbyte_stream(f.buffer, f.ptr).offset,
                  !.pos_left = @ - 1,
                  !.curr_pos = @ + decode_varbyte_stream(f.buffer, f.ptr).number,
                  !.positions = Append(@, f.curr_pos
                                          + decode_varbyte_stream(f.buffer, f.ptr).number),
                  !.checked = FALSE])
    ELSE IF f.docs_left = 0 THEN [f EXCEPT !.stage = "done"]
    ELSE IF ~f.checked /\ f.ptr >= Len(f.buffer) - 10
    THEN [f EXCEPT !.stage = "refill"]
    ELSE IF ~decode_varbyte_stream(f.buffer, f.ptr).ok
    THEN [f EXCEPT !.stage = "raised"]
    ELSE IF ~decode_varbyte_stream(f.buffer, decode_varbyte_stream(f.buffer, f.ptr).offset).ok
    THEN [f EXCEPT !.stage = "raised",
                   !.ptr = decode_varbyte_stream(f.buffer, f.ptr).offset,
                   !.curr_doc_id = @ + decode_varbyte_stream(f.buffer, f.ptr).number]
    ELSE RunFrame([f EXCEPT
             !.curr_doc_id = @ + decode_varbyte_stream(f.buffer, f.ptr).number,
             !.ptr = decode_varbyte_stream(f.buffer,
                         decode_varbyte_stream(f.buffer, f.ptr).offset).offset,
             !.inner = TRUE,
             !.pos_left = decode_varbyte_stream(f.buffer,
                              decode_varbyte_stream(f.buffer, f.ptr).offset).number,
             !.curr_pos = 0, !.positions = <<>>, !.checked = FALSE])

\* lines 68-72: the frame of a call for term, the handle's cursor being cur
\* on entry: [f, cursor]
StartFetch(f, dict, term, cur) ==
    IF term \notin DOMAIN dict
    THEN [f |-> [NoFetch EXCEPT !.stage = "done", !.term = term, !.calls = f.calls + 1],
          cursor |-> cur]
    ELSE [f |-> [NoFetch EXCEPT !.stage = "seeked", !.term = term, !.calls = f.calls + 1],
          cursor |-> SeekTo(dict[term].offset, cur)]

\* lines 75-81 and on to the next read: [f, cursor]
FirstRead(f, file, cur) ==
    IF FileRead(file, cur, BufferSize) = <<>> THEN [f |-> [f EXCEPT !.stage = "done"], cursor |-> cur]
    ELSE IF ~decode_varbyte_stream(FileRead(file, cur, BufferSize), 0).ok
    THEN [f |-> [f EXCEPT !.stage = "raised", !.buffer = FileRead(file, cur, BufferSize)],
          cursor |-> cur + Len(FileRead(file, cur, BufferSize))]
    ELSE [f |-> RunFrame([f EXCEPT
                   !.stage = "decoding",
                   !.buffer = FileRead(file, cur, BufferSize),
                   !.ptr = decode_varbyte_stream(FileRead(file, cur, BufferSize), 0).offset,
                   !.docs_left = decode_varbyte_stream(FileRead(file, cur, BufferSize), 0).number]),
          cursor |-> cur + Len(FileRead(file, cur, BufferSize))]

\* the refill the frame waits for (lines 88-91 or 102-105), and on to the
\* next read: [f, cursor]
RefillRead(f, file, cur) ==
    [f |-> RunFrame([f EXCEPT
              !.stage = "decoding",
              !.buffer = Refill(file, [buffer |-> f.buffer, ptr |-> f.ptr, fpos |-> cur],
                                IF f.inner THEN 5 ELSE 10).buffer,
              !.ptr = Refill(file, [buffer |-> f.buffer, ptr |-> f.ptr, fpos |-> cur],
                             IF f.inner THEN 5 ELSE 10).ptr,
              !.checked = TRUE]),
     cursor |-> Refill(file, [buffer |-> f.buffer, ptr |-> f.ptr, fpos |-> cur],
                       IF f.inner THEN 5 ELSE 10).fpos]

(***************************************************************************)
(* The state.                                                              *)
(***************************************************************************)
VARIABLES
    source,          \* the documents the source cursor yields: <<url, title, text>>
    pc,              \* "indexing", "built" (build_index returned), "open", "failed"
    doc_infos,       \* build_index: the (url, title) pairs collected
    local_index,     \* build_index: term -> (DocId -> positions) in memory
    temp_dir,        \* block id -> contents of temp/block_<id>.tmp
    docs_processed,  \* build_index: documents consumed
    block_id,        \* build_index: blocks spilled
    docs_file,       \* index.docs
    dict_file,       \* index.dict
    post_file,       \* index.postings, a sequence of bytes
    r_doc_infos,     \* reader.doc_infos
    term_dict,       \* reader.term_dict: term -> [offset, doc_count]
    cursor,          \* position of the reader's post_file handle
    looked,          \* the last get_postings call: [term, ok, map], or <<>>
    out_dir,         \* the names of the entries of out_dir
    before,          \* the names of the entries of out_dir when build_index
                     \* was called
    tokenizer,       \* the tokenizer process of the build: [alive, pending]
    tokenized,       \* the last tokenize call of the build: [called, text, tokens,
                     \* dead_before, dead]
    codec,           \* a run of the codec on one list of numbers: [stage,
                     \* xs, deltas, bytes, numbers, offset]
    pipe,            \* a tokenizer client on a live process: the lines of
                     \* process.stdout not read yet and the calls made
    fetches,         \* get_postings calls of two threads on one reader
    web,             \* the SearchEngine of app.py and its engine process
    input_lines,     \* the queries of the input file of main_cli, in order
    results          \* per line run so far: the query, what engine.execute
                     \* returned (docs, or raised) and the processed_tokens and
                     \* final_tokens of _evaluate_recursive

buildVars == <<doc_infos, local_index, temp_dir, docs_processed, block_id>>

fileVars == <<docs_file, dict_file, post_file, out_dir, before>>

tokVars == <<tokenizer, tokenized>>

readerVars == <<r_doc_infos, term_dict>>

queryVars == <<input_lines, results>>

\* the variables of build, reader and query
mainVars ==
    <<source, pc, buildVars, fileVars, tokVars, readerVars, cursor, looked, queryVars>>

\* the variables of the machines that stand apart from build and query
auxVars == <<codec, pipe, fetches, web>>

vars ==
    <<source, pc, buildVars, fileVars, tokVars, readerVars, cursor, looked, queryVars,
      auxVars>>

(***************************************************************************)
(* search.py: SearchEngine over the open reader of the state.              *)
(***************************************************************************)
\* a variant whose universe leaves out the last document
all_docs_Short == 0..(Len(r_doc_infos) - 2)

\* self.all_docs = set(range(len(reader.doc_infos)))
all_docs == 0..(Len(r_doc_infos) - 1)

QUOTE == "\""

PHRASE_PREFIX == <<"P", "H", "R", "A", "S", "E", ":">>

NUM_PREFIX == <<"N", "U", "M", ":">>

AND == <<"&", "&">>

OR == <<"|", "|">>

NOT == <<"!">>

LPAREN == <<"(">>

RPAREN == <<")">>

SLASH == <<"/">>

IsDigit(c) == c \in {"0", "1", "2", "3", "4", "5", "6", "7", "8", "9"}

\* the class [^\s"&|!()/] of the word alternative
IsWordChar(c) == ~IsSpace(c) /\ c \notin {QUOTE, "&", "|", "!", "(", ")", "/"}

\* the last index of the maximal run from i (1-based) of characters in a class
RECURSIVE DigitRunEnd(_, _)
DigitRunEnd(q, i) ==
    IF i < Len(q) /\ IsDigit(q[i + 1]) THEN DigitRunEnd(q, i + 1) ELSE i

RECURSIVE WordRunEnd(_, _)
WordRunEnd(q, i) ==
    IF i < Len(q) /\ IsWordChar(q[i + 1]) THEN WordRunEnd(q, i + 1) ELSE i

\* the index of the first quote at or after i, 0 when there is none
RECURSIVE NextQuote(_, _)
NextQuote(q, i) ==
    IF i > Len(q) THEN 0 ELSE IF q[i] = QUOTE THEN i ELSE NextQuote(q, i + 1)

\* pattern.finditer(q) from index i (1-based): at each index the alternatives
\* "([^"]+)" | (\d+) | (&&|\|\||!|\(|\)|/) | ([^\s"&|!()/]+) are tried in this
\* order; where none matches the scan moves on by one character
RECURSIVE Scan(_, _)
Scan(q, i) ==
    IF i > Len(q) THEN <<>>
    ELSE LET c == q[i]
             close == NextQuote(q, i + 1)
         IN IF c = QUOTE /\ close > i + 1
            THEN <<PHRASE_PREFIX \o SubSeq(q, i + 1, close - 1)>> \o Scan(q, close + 1)
            ELSE IF IsDigit(c)
            THEN <<NUM_PREFIX \o SubSeq(q, i, DigitRunEnd(q, i))>>
                 \o Scan(q, DigitRunEnd(q, i) + 1)
            ELSE IF c = "&" /\ i < Len(q) /\ q[i + 1] = "&" THEN <<AND>> \o Scan(q, i + 2)
            ELSE IF c = "|" /\ i < Len(q) /\ q[i + 1] = "|" THEN <<OR>> \o Scan(q, i + 2)
            ELSE IF c \in {"!", "(", ")", "/"} THEN <<<<c>>>> \o Scan(q, i + 1)
            ELSE IF IsWordChar(c)
            THEN <<SubSeq(q, i, WordRunEnd(q, i))>> \o Scan(q, WordRunEnd(q, i) + 1)
            ELSE Scan(q, i + 1)

\* _tokenize(query): the token strings
tokenize_query(query) ==
    Scan([i \in 1..Len(query) |->
            IF query[i] \in {"LAQUO", "RAQUO"} THEN QUOTE ELSE query[i]], 1)

\* t.split(':')[1] for a token that holds a colon
RECURSIVE UpToColon(_)
UpToColon(s) ==
    IF s = <<>> \/ Head(s) = ":" THEN <<>> ELSE <<Head(s)>> \o UpToColon(Tail(s))

SplitColon1(t) == UpToColon(Drop(t, Len(UpToColon(t)) + 1))

DigitValue(c) == CharCode(c) - 48

\* int(s) for a string without sign, blank or underscore: raises ValueError
\* unless s is a non-empty run of digits
RECURSIVE IntOfDigits(_, _)
IntOfDigits(s, acc) ==
    IF s = <<>> THEN acc ELSE IntOfDigits(Tail(s), acc * 10 + DigitValue(Head(s)))

ParseInt(s) ==
    IF s # <<>> /\ \A i \in 1..Len(s) : IsDigit(s[i])
    THEN [ok |-> TRUE, value |-> IntOfDigits(s, 0)]
    ELSE [ok |-> FALSE, value |-> 0]

IsOpToken(t) == t \in {AND, OR, NOT, LPAREN, RPAREN}

\* the test of line 158: the token is a phrase or a word
IsOperandToken(t) ==
    StartsWith(t, PHRASE_PREFIX) \/ ~(IsOpToken(t) \/ t = SLASH \/ StartsWith(t, NUM_PREFIX))

\* a variant that keeps the PHRASE: prefix in the proximity content
ProximityContent_Raw(t) == t

\* line 161: content = t if not t.startswith('PHRASE:') else t[7:]
ProximityContent(t) == IF StartsWith(t, PHRASE_PREFIX) THEN Drop(t, 7) ELSE t

Tok(type, val, dist) == [type |-> type, val |-> val, dist |-> dist]

\* the while-loop of lines 156-174 from index i (0-based): processed_tokens
RECURSIVE Fold(_, _, _)
Fold(tokens, i, processed) ==
    IF i >= Len(tokens) THEN [ok |-> TRUE, tokens |-> processed]
    ELSE LET t == tokens[i + 1] IN
         IF IsOperandToken(t)
         THEN IF i + 2 < Len(tokens) /\ tokens[i + 2] = SLASH
                 /\ StartsWith(tokens[i + 3], NUM_PREFIX)
              THEN LET dist == ParseInt(SplitColon1(tokens[i + 3]))
                       content == ProximityContent(t)
                   IN IF ~dist.ok THEN [ok |-> FALSE, tokens |-> processed]
                      ELSE Fold(tokens, i + 3,
                                Append(processed, Tok("PROXIMITY", content, dist.value)))
              ELSE IF StartsWith(t, PHRASE_PREFIX)
                   THEN Fold(tokens, i + 1, Append(processed, Tok("PHRASE", Drop(t, 7), 0)))
                   ELSE Fold(tokens, i + 1, Append(processed, Tok("TERM", t, 0)))
         ELSE IF IsOpToken(t)
              THEN Fold(tokens, i + 1, Append(processed, Tok("OP", t, 0)))
              ELSE Fold(tokens, i + 1, processed)

\* a variant that treats ')' like every other operator on the left
ImplicitAnd_AnyOp(cur, nxt) ==
    LET is_op1 == cur.type = "OP"
        is_op2 == nxt.type = "OP" /\ nxt.val \notin {LPAREN, NOT}
    IN ~is_op1 /\ ~is_op2

\* lines 187-190: whether ('OP', '&&') follows token cur when nxt comes next
ImplicitAnd(cur, nxt) ==
    LET is_op1 == cur.type = "OP" /\ cur.val # RPAREN
        is_op2 == nxt.type = "OP" /\ nxt.val \notin {LPAREN, NOT}
    IN ~is_op1 /\ ~is_op2

\* lines 180-191: final_tokens
InsertAnds(processed) ==
    Flatten([i \in 1..Len(processed) |->
        IF i < Len(processed) /\ ImplicitAnd(processed[i], processed[i + 1])
        THEN <<processed[i], Tok("OP", AND, 0)>>
        ELSE <<processed[i]>>])

\* a variant with the precedences of && and || exchanged
PRECEDENCE_Swapped(op) ==
    CASE op = LPAREN -> 0 [] op = OR -> 2 [] op = AND -> 1 [] op = NOT -> 3 [] OTHER -> 0

\* line 178
PRECEDENCE(op) ==
    CASE op = LPAREN -> 0 [] op = OR -> 1 [] op = AND -> 2 [] op = NOT -> 3 [] OTHER -> 0

\* "while stack and stack[-1] != '(' [and ...]: output.append(('OP', stack.pop()))"
\* y is [output, stack]; the top of the stack is its last element
RECURSIVE PopWhile(_, _, _)
PopWhile(y, val, by_precedence) ==
    IF y.stack # <<>> /\ y.stack[Len(y.stack)] # LPAREN
       /\ (by_precedence => PRECEDENCE(y.stack[Len(y.stack)]) >= PRECEDENCE(val))
    THEN PopWhile([output |-> Append(y.output, Tok("OP", y.stack[Len(y.stack)], 0)),
                   stack |-> SubSeq(y.stack, 1, Len(y.stack) - 1)], val, by_precedence)
    ELSE y

\* one iteration of the for-loop of lines 193-207
ShuntStep(y, token) ==
    IF token.type \in {"TERM", "PHRASE", "PROXIMITY"}
    THEN [y EXCEPT !.output = Append(y.output, token)]
    ELSE IF token.val = LPAREN THEN [y EXCEPT !.stack = Append(y.stack, LPAREN)]
    ELSE IF token.val = RPAREN
         THEN LET y1 == PopWhile(y, RPAREN, FALSE) IN
              IF y1.stack # <<>>
              THEN [y1 EXCEPT !.stack = SubSeq(y1.stack, 1, Len(y1.stack) - 1)]
              ELSE y1
         ELSE LET y1 == PopWhile(y, token.val, TRUE) IN
              [y1 EXCEPT !.stack = Append(y1.stack, token.val)]

RECURSIVE ShuntLoop(_, _)
ShuntLoop(final_tokens, y) ==
    IF final_tokens = <<>> THEN y
    ELSE ShuntLoop(Tail(final_tokens), ShuntStep(y, Head(final_tokens)))

\* "while stack: output.append(('OP', stack.pop()))"
RECURSIVE PopAll(_)
PopAll(y) ==
    IF y.stack = <<>> THEN y.output
    ELSE PopAll([output |-> Append(y.output, Tok("OP", y.stack[Len(y.stack)], 0)),
                 stack |-> SubSeq(y.stack, 1, Len(y.stack) - 1)])

\* lines 176-210: the RPN of the processed tokens
ShuntingYard(processed) ==
    PopAll(ShuntLoop(InsertAnds(processed), [output |-> <<>>, stack |-> <<>>]))

\* self.reader.get_postings(term) on the reader of the state, the handle's
\* cursor being at cur
Postings(term, cur) == get_postings(term_dict, post_file, term, cur)

\* _find_path(positions_list, idx, prev_pos, first_pos, max_dist, is_exact):
\* the for-loop returns True at the first candidate that succeeds
RECURSIVE find_path(_, _, _, _, _, _)
find_path(positions_list, idx, prev_pos, first_pos, max_dist, is_exact) ==
    IF idx = Len(positions_list) THEN TRUE
    ELSE \E k \in 1..Len(positions_list[idx + 1]) :
            LET pos == positions_list[idx + 1][k] IN
            IF idx = 0
            THEN find_path(positions_list, idx + 1, pos, pos, max_dist, is_exact)
            ELSE /\ pos > prev_pos
                 /\ (is_exact => pos = prev_pos + 1)
                 /\ ~((pos - first_pos) > max_dist)
                 /\ find_path(positions_list, idx + 1, pos, first_pos, max_dist, is_exact)

\* a variant that never asks for adjacency
check_sequence_NeverExact(positions_list, max_dist) ==
    find_path(positions_list, 0, -1, -1, max_dist, FALSE)

\* _check_sequence(positions_list, max_dist)
check_sequence(positions_list, max_dist) ==
    find_path(positions_list, 0, -1, -1, max_dist, max_dist = Len(positions_list))

\* the for-loop of lines 261-264: "p = get_postings(t); if not p: return set()"
RECURSIVE FetchPostings(_, _, _)

\* lines 263-264 for the postings p of Head(terms), and the rest of the loop
KeepPostings(terms, term_postings, p) ==
    IF ~p.ok THEN [status |-> "raised", postings |-> term_postings, fpos |-> p.fpos]
    ELSE IF DOMAIN p.map = {}
    THEN [status |-> "empty", postings |-> term_postings, fpos |-> p.fpos]
    ELSE FetchPostings(Tail(terms), p.fpos, Append(term_postings, p.map))

FetchPostings(terms, cur, term_postings) ==
    IF terms = <<>> THEN [status |-> "all", postings |-> term_postings, fpos |-> cur]
    ELSE KeepPostings(terms, term_postings, Postings(Head(terms), cur))

\* lines 266-277 of _sequence_search over the fetched postings f
MatchFetched(terms, max_dist, f) ==
    IF f.status = "raised" THEN [ok |-> FALSE, docs |-> {}, fpos |-> f.fpos]
    ELSE IF f.status = "empty" THEN [ok |-> TRUE, docs |-> {}, fpos |-> f.fpos]
    ELSE LET term_postings == f.postings
             common_docs ==
                 {d \in DOMAIN term_postings[1] :
                     \A i \in 1..Len(terms) : d \in DOMAIN term_postings[i]}
         IN [ok |-> TRUE, fpos |-> f.fpos,
             docs |-> {d \in common_docs :
                 check_sequence([i \in 1..Len(terms) |-> term_postings[i][d]],
                                max_dist)}]

\* _sequence_search(terms, max_dist): [ok, docs, fpos]
sequence_search(terms, max_dist, cur) ==
    IF terms = <<>> THEN [ok |-> TRUE, docs |-> {}, fpos |-> cur]
    ELSE MatchFetched(terms, max_dist, FetchPostings(terms, cur, <<>>))

\* one iteration of the for-loop of _solve_rpn; z is [ok, stack, fpos], the
\* top of the stack is its last element, fpos the cursor of the postings handle
\* lines 222-223: stack.append(set(postings.keys())), p the postings read
PushPostings(z, p) ==
    IF p.ok THEN [z EXCEPT !.stack = Append(z.stack, DOMAIN p.map), !.fpos = p.fpos]
    ELSE [z EXCEPT !.ok = FALSE, !.fpos = p.fpos]

\* lines 220-225: the TERM branch for the stems of the word
PushTerm(z, stems) ==
    IF stems # <<>> THEN PushPostings(z, Postings(stems[1], z.fpos))
    ELSE [z EXCEPT !.stack = Append(z.stack, {})]

\* lines 230 and 236: stack.append(docs), r the outcome of _sequence_search
PushDocs(z, r) ==
    IF r.ok THEN [z EXCEPT !.stack = Append(z.stack, r.docs), !.fpos = r.fpos]
    ELSE [z EXCEPT !.ok = FALSE, !.fpos = r.fpos]

\* lines 228-236: the PHRASE and PROXIMITY branches for the terms of the content
PushSequence(z, token, terms) ==
    PushDocs(z, sequence_search(terms,
                    IF token.type = "PHRASE" THEN Len(terms) ELSE token.dist, z.fpos))

\* a variant in which an operator without its operands raises
SolveStep_Strict(z, token) ==
    LET n == Len(z.stack) IN
    IF token.type = "TERM"
    THEN PushTerm(z, TokenizerClient_tokenize(token.val))
    ELSE IF token.type \in {"PHRASE", "PROXIMITY"}
    THEN PushSequence(z, token, TokenizerClient_tokenize(token.val))
    ELSE IF token.val = NOT
    THEN IF n = 0 THEN [z EXCEPT !.ok = FALSE]
         ELSE [z EXCEPT !.stack = Append(SubSeq(z.stack, 1, n - 1), all_docs \ z.stack[n])]
    ELSE IF token.val = AND
    THEN IF n < 2 THEN [z EXCEPT !.ok = FALSE]
         ELSE [z EXCEPT !.stack =
                  Append(SubSeq(z.stack, 1, n - 2), z.stack[n - 1] \cap z.stack[n])]
    ELSE IF token.val = OR
    THEN IF n < 2 THEN [z EXCEPT !.ok = FALSE]
         ELSE [z EXCEPT !.stack =
                  Append(SubSeq(z.stack, 1, n - 2), z.stack[n - 1] \cup z.stack[n])]
    ELSE z

SolveStep(z, token) ==
    LET n == Len(z.stack) IN
    IF token.type = "TERM"
    THEN PushTerm(z, TokenizerClient_tokenize(token.val))
    ELSE IF token.type \in {"PHRASE", "PROXIMITY"}
    THEN PushSequence(z, token, TokenizerClient_tokenize(token.val))
    ELSE IF token.val = NOT
    THEN IF n = 0 THEN z
         ELSE [z EXCEPT !.stack = Append(SubSeq(z.stack, 1, n - 1), all_docs \ z.stack[n])]
    ELSE IF token.val = AND
    THEN IF n < 2 THEN z
         ELSE [z EXCEPT !.stack =
                  Append(SubSeq(z.stack, 1, n - 2), z.stack[n - 1] \cap z.stack[n])]
    ELSE IF token.val = OR
    THEN IF n < 2 THEN z
         ELSE [z EXCEPT !.stack =
                  Append(SubSeq(z.stack, 1, n - 2), z.stack[n - 1] \cup z.stack[n])]
    ELSE z

RECURSIVE SolveLoop(_, _)
SolveLoop(rpn, z) ==
    IF rpn = <<>> \/ ~z.ok THEN z ELSE SolveLoop(Tail(rpn), SolveStep(z, Head(rpn)))

\* line 254: "return stack[0] if stack else set()", z the state after the loop
StackResult(z) ==
    IF ~z.ok THEN [raised |-> TRUE, docs |-> {}, fpos |-> z.fpos]
    ELSE [raised |-> FALSE, docs |-> IF z.stack # <<>> THEN z.stack[1] ELSE {},
          fpos |-> z.fpos]

\* _solve_rpn(rpn): [raised, docs, fpos]
solve_rpn(rpn) ==
    StackResult(SolveLoop(rpn, [ok |-> TRUE, stack |-> <<>>, fpos |-> cursor]))

\* _evaluate_recursive(tokens)
evaluate_recursive(tokens) ==
    LET folded == Fold(tokens, 0, <<>>) IN
    IF ~folded.ok THEN [raised |-> TRUE, docs |-> {}, fpos |-> cursor]
    ELSE solve_rpn(ShuntingYard(folded.tokens))

\* SearchEngine.execute(query): the set returned, or raised
execute(query) == evaluate_recursive(tokenize_query(query))

(***************************************************************************)
(* build_index as operators on the builder's locals                        *)
(* b = [doc_infos, local_index, temp_dir, docs_processed, block_id].       *)
(***************************************************************************)
NewBuild ==
    [doc_infos |-> <<>>, local_index |-> EmptyMap, temp_dir |-> EmptyMap,
     docs_processed |-> 0, block_id |-> 0]

\* a variant that passes over a document without tokens
index_tokens_SkipEmpty(b, doc, tokens, block_size) ==
    LET doc_id == b.docs_processed
        index == AddTokens(b.local_index, tokens, doc_id, 0)
        processed == b.docs_processed + 1
    IN IF tokens = <<>> THEN b
       ELSE IF processed % block_size = 0
       THEN [doc_infos |-> Append(b.doc_infos, <<doc[1], doc[2]>>),
             local_index |-> EmptyMap,
             temp_dir |-> MapPut(b.temp_dir, b.block_id, save_temp_block(index)),
             docs_processed |-> processed, block_id |-> b.block_id + 1]
       ELSE [doc_infos |-> Append(b.doc_infos, <<doc[1], doc[2]>>),
             local_index |-> index, temp_dir |-> b.temp_dir,
             docs_processed |-> processed, block_id |-> b.block_id]

\* a variant that numbers the documents from 1
index_tokens_OneBased(b, doc, tokens, block_size) ==
    LET doc_id == b.docs_processed + 1
        index == AddTokens(b.local_index, tokens, doc_id, 0)
        processed == b.docs_processed + 1
    IN IF processed % block_size = 0
       THEN [doc_infos |-> Append(b.doc_infos, <<doc[1], doc[2]>>),
             local_index |-> EmptyMap,
             temp_dir |-> MapPut(b.temp_dir, b.block_id, save_temp_block(index)),
             docs_processed |-> processed, block_id |-> b.block_id + 1]
       ELSE [doc_infos |-> Append(b.doc_infos, <<doc[1], doc[2]>>),
             local_index |-> index, temp_dir |-> b.temp_dir,
             docs_processed |-> processed, block_id |-> b.block_id]

\* a variant that keeps the in-memory map after a spill
index_tokens_NoClear(b, doc, tokens, block_size) ==
    LET doc_id == b.docs_processed
        index == AddTokens(b.local_index, tokens, doc_id, 0)
        processed == b.docs_processed + 1
    IN IF processed % block_size = 0
       THEN [doc_infos |-> Append(b.doc_infos, <<doc[1], doc[2]>>),
             local_index |-> index,
             temp_dir |-> MapPut(b.temp_dir, b.block_id, save_temp_block(index)),
             docs_processed |-> processed, block_id |-> b.block_id + 1]
       ELSE [doc_infos |-> Append(b.doc_infos, <<doc[1], doc[2]>>),
             local_index |-> index, temp_dir |-> b.temp_dir,
             docs_processed |-> processed, block_id |-> b.block_id]

\* lines 170-184 for the tokens that tokenize returned for doc, a block being
\* spilled every block_size documents; doc is <<url, title, text>>
index_tokens(b, doc, tokens, block_size) ==
    LET doc_id == b.docs_processed
        index == AddTokens(b.local_index, tokens, doc_id, 0)
        processed == b.docs_processed + 1
    IN IF processed % block_size = 0
       THEN [doc_infos |-> Append(b.doc_infos, <<doc[1], doc[2]>>),
             local_index |-> EmptyMap,
             temp_dir |-> MapPut(b.temp_dir, b.block_id, save_temp_block(index)),
             docs_processed |-> processed, block_id |-> b.block_id + 1]
       ELSE [doc_infos |-> Append(b.doc_infos, <<doc[1], doc[2]>>),
             local_index |-> index, temp_dir |-> b.temp_dir,
             docs_processed |-> processed, block_id |-> b.block_id]

\* one iteration of "for doc in cursor" (lines 169-184) with a live tokenizer
index_document(b, doc) ==
    index_tokens(b, doc, TokenizerClient_tokenize(doc[3]), BlockSize)

\* "if local_index: save_temp_block(...); block_id += 1" (lines 186-188)
spill_tail(b) ==
    IF DOMAIN b.local_index # {}
    THEN [b EXCEPT !.temp_dir = MapPut(b.temp_dir, b.block_id, save_temp_block(b.local_index)),
                   !.block_id = b.block_id + 1]
    ELSE b

\* lines 193-194: the three index files written from the builder's locals
index_files(b) ==
    LET merged == merge_blocks(b.temp_dir, b.block_id)
    IN [docs |-> write_docs_index(b.doc_infos), dict |-> merged.dict, post |-> merged.post]

RECURSIVE IndexAll(_, _)
IndexAll(b, docs) == IF docs = <<>> THEN b ELSE IndexAll(index_document(b, Head(docs)), Tail(docs))

\* the locals of build_index when the loop over the whole source has ended
\* and the tail has been spilled
BuiltFrom(docs) == spill_tail(IndexAll(NewBuild, docs))

\* the same loop when BLOCK_SIZE is block_size
RECURSIVE IndexAllBy(_, _, _)
IndexAllBy(b, docs, block_size) ==
    IF docs = <<>> THEN b
    ELSE IndexAllBy(index_tokens(b, Head(docs), TokenizerClient_tokenize(Head(docs)[3]),
                                 block_size),
                    Tail(docs), block_size)

BuiltBy(docs, block_size) == spill_tail(IndexAllBy(NewBuild, docs, block_size))

\* a variant that leaves a pre-existing out_dir in place
start_dir_Kept(existing) == existing \cup {"temp"}

\* lines 148-153: a pre-existing out_dir is removed, out_dir and out_dir/temp
\* are made
start_dir(existing) == {"temp"}

\* lines 193-196: the three files are written and temp is removed
finish_dir(existing) ==
    (existing \cup {"index.docs", "index.dict", "index.postings"}) \ {"temp"}

(***************************************************************************)
(* Inputs: words, texts and queries.                                       *)
(***************************************************************************)
\* ' '.join(words)
RECURSIVE Join(_)
Join(words) ==
    IF words = <<>> THEN <<>>
    ELSE IF Len(words) = 1 THEN words[1]
    ELSE words[1] \o <<" ">> \o Join(Tail(words))

\* all sequences over S of length at most n
SeqsUpTo(S, n) == UNION {[1..k -> S] : k \in 0..n}

\* the decimal digits of n
RECURSIVE Digits(_)
Digits(n) ==
    LET d == <<"0", "1", "2", "3", "4", "5", "6", "7", "8", "9">>[(n % 10) + 1] IN
    IF n < 10 THEN <<d>> ELSE Digits(n \div 10) \o <<d>>

\* the documents the source yields for these texts: the i-th has url u<i-1>
\* and title t<i-1>; every second document has no title
SourceOf(texts) ==
    [i \in 1..Len(texts) |->
        <<<<"u">> \o Digits(i - 1),
          IF i % 2 = 0 THEN <<>> ELSE <<"t">> \o Digits(i - 1),
          texts[i]>>]

W_a == <<"a">>

W_b == <<"b">>

W_c == <<"c">>

W_x == <<"x">>

\* words that begin with the prefixes the lexer gives to phrases and numbers
W_PhraseA == PHRASE_PREFIX \o W_a

W_Num5 == NUM_PREFIX \o <<"5">>

W_NumX == NUM_PREFIX \o W_x

\* a term of 255 bytes and a term of 256 bytes that share their first 255 bytes
LONG255 == <<"v254", "a">>

LONG256 == <<"v254", "a", "b">>

\* a term of 256 bytes whose 255th and 256th bytes are one character
LONGCUT == <<"v254", "LAQUO">>

W_the == <<"t", "h", "e">>

W_quick == <<"q", "u", "i", "c", "k">>

W_brown == <<"b", "r", "o", "w", "n">>

W_fox == <<"f", "o", "x">>

W_lazy == <<"l", "a", "z", "y">>

W_dog == <<"d", "o", "g">>

W_bear == <<"b", "e", "a", "r">>

W_sleeps == <<"s", "l", "e", "e", "p", "s">>


\* the terms of the documents of the modelled builds
BuildVocab == {W_a, LONG255, LONG256}

\* the texts of the documents of the modelled builds: the empty text, a text
\* of whitespace, every single term, and of MaxTokens tokens a repeated term
\* and a repeated term followed by the 256-byte term
BuildTexts ==
    {Join(ts) : ts \in SeqsUpTo(BuildVocab, 1)}
    \cup {<<" ">>}
    \cup {Join([i \in 1..MaxTokens |-> W_a]),
          Join([i \in 1..MaxTokens |-> IF i < MaxTokens THEN W_a ELSE LONG256])}

\* document lists with a term that write_term_entry cuts inside a character
CutSources == {SourceOf(<<LONGCUT>>), SourceOf(<<W_a, Join(<<W_a, LONGCUT>>)>>)}

\* the document lists of the modelled builds, of 0 to MaxDocs documents
Sources == {SourceOf(texts) : texts \in SeqsUpTo(BuildTexts, MaxDocs)} \cup CutSources

\* the corpus of the end-to-end scenario
ScenarioSource ==
    SourceOf(<<Join(<<W_the, W_quick, W_brown, W_fox>>),
               Join(<<W_the, W_lazy, W_brown, W_dog>>),
               Join(<<W_quick, W_fox, W_quick, W_fox>>),
               Join(<<W_brown, W_bear, W_sleeps>>)>>)

\* a corpus with adjacent, reversed, separated and repeated terms, a document
\* without tokens and a term written in digits
LetterSource ==
    SourceOf(<<Join(<<W_a, W_b>>), Join(<<W_b, W_a>>), Join(<<W_a, W_c, W_b>>), W_c, <<>>,
               Join(<<W_a, W_a, W_b>>), Join(<<W_b, W_c, W_c, W_a>>),
               Join(<<W_a, <<"1", "2">>>>)>>)

SmallSource ==
    SourceOf(<<W_a, <<" ", " ">>, Join(<<W_b, W_a, W_b>>), Join(<<W_c, <<"2">>, W_b, <<"a", "1">>>>)>>)

QuerySources == {ScenarioSource, LetterSource, SmallSource}

Q_And(l, r) == l \o <<" ", "&", "&", " ">> \o r

Q_Or(l, r) == l \o <<" ", "|", "|", " ">> \o r

Q_Not(e) == <<"!">> \o e

Q_Paren(e) == <<"(">> \o e \o <<")">>

Q_Phrase(words) == <<QUOTE>> \o Join(words) \o <<QUOTE>>

Q_Prox(e, n) == e \o <<" ", "/", " ">> \o Digits(n)

Q_Adj(l, r) == l \o <<" ">> \o r

\* operands of the modelled queries: a term, a phrase and a proximity token
AtomOperands ==
    {W_a, W_b, Q_Phrase(<<W_a, W_b>>), Q_Prox(Q_Phrase(<<W_b, W_a>>), 3)}

\* operand sub-queries: the operands and parenthesised sub-queries
SubQueries ==
    AtomOperands
    \cup {Q_Paren(Q_Or(W_a, W_c)), Q_Paren(Q_Not(W_b)), Q_Paren(Q_Not(Q_Not(W_a)))}

\* the contents of the modelled phrases: term sequences
PhraseContents ==
    (SeqsUpTo({W_a, W_b, W_c, W_x}, 2) \ {<<>>})
    \cup {<<W_a, W_c, W_b>>, <<W_a, W_a, W_b>>, <<W_b, W_c, W_a>>, <<W_b, W_c, W_c>>,
          <<W_a, W_b, W_a>>}

\* bare words: runs of characters other than whitespace " & | ! ( ) /
BareWords ==
    {W_a, W_b, W_x, <<"1", "2">>, <<"2">>, <<"a", "1">>, <<"1", "a">>, W_brown}

\* the token kinds of the processed token list, as query text
TokenTexts ==
    {W_a, Q_Phrase(<<W_a, W_b>>), Q_Prox(W_b, 1), LPAREN, RPAREN, NOT, AND, OR}

\* the input files of the boolean laws
Law_Contradiction(a) == <<Q_And(a, Q_Not(a))>>

Law_ExcludedMiddle(a) == <<Q_Or(a, Q_Not(a))>>

Law_DoubleNegation(a) == <<Q_Not(Q_Paren(Q_Not(a))), a>>

Law_Commutative(a, b) == <<Q_And(a, b), Q_And(b, a)>>

Law_Distributive(a, b, c) ==
    <<Q_Or(a, Q_Paren(Q_And(b, c))), Q_And(Q_Paren(Q_Or(a, b)), Q_Paren(Q_Or(a, c)))>>

LawBatches ==
    {Law_Contradiction(a) : a \in SubQueries}
    \cup {Law_ExcludedMiddle(a) : a \in SubQueries}
    \cup {Law_DoubleNegation(a) : a \in SubQueries}
    \cup {Law_Commutative(a, b) : a \in SubQueries, b \in SubQueries}
    \cup {Law_Distributive(a, b, c) : a \in SubQueries, b \in SubQueries, c \in SubQueries}

\* consecutive NOT operators against the parenthesised form
Not_Double(x) == <<Q_Not(Q_Not(x)), Q_Not(Q_Paren(Q_Not(x)))>>

Not_InOr(a, b) == <<Q_Or(a, Q_Not(Q_Not(b))), Q_Or(a, Q_Not(Q_Paren(Q_Not(b))))>>

Not_InAnd(a, b) == <<Q_And(a, Q_Not(Q_Not(b))), Q_And(a, Q_Not(Q_Paren(Q_Not(b))))>>

NotBatches ==
    {Not_Double(x) : x \in AtomOperands}
    \cup {Not_InOr(a, b) : a \in AtomOperands, b \in AtomOperands}
    \cup {Not_InAnd(a, b) : a \in AtomOperands, b \in AtomOperands}

\* the operands alone, then a query that combines them
Prec_OrAnd(a, b, c) == <<a, b, c, Q_Or(a, Q_And(b, c))>>

Prec_AndOr(a, b, c) == <<a, b, c, Q_Or(Q_And(a, b), c)>>

Prec_NotAnd(a, b) == <<a, b, Q_And(Q_Not(a), b)>>

Prec_Paren(a, b, c) == <<a, b, c, Q_And(Q_Paren(Q_Or(a, b)), c)>>

PrecedenceBatches ==
    {Prec_OrAnd(a, b, c) : a \in AtomOperands, b \in AtomOperands, c \in AtomOperands}
    \cup {Prec_AndOr(a, b, c) : a \in AtomOperands, b \in AtomOperands, c \in AtomOperands}
    \cup {Prec_NotAnd(a, b) : a \in AtomOperands, b \in AtomOperands}
    \cup {Prec_Paren(a, b, c) : a \in AtomOperands, b \in AtomOperands, c \in AtomOperands}

\* a query without the operator, then with an explicit &&
Adj_Plain(a, b) == <<Q_Adj(a, b), Q_And(a, b)>>

Adj_Not(a, b) == <<Q_Adj(a, Q_Not(b)), Q_And(a, Q_Not(b))>>

Adj_Parens(a, b) == <<Q_Adj(Q_Paren(a), Q_Paren(b)), Q_And(Q_Paren(a), Q_Paren(b))>>

Adj_Open(a, b, c) == <<Q_Adj(a, Q_Paren(Q_Or(b, c))), Q_And(a, Q_Paren(Q_Or(b, c)))>>

AdjacencyBatches ==
    {Adj_Plain(a, b) : a \in AtomOperands, b \in AtomOperands}
    \cup {Adj_Not(a, b) : a \in AtomOperands, b \in AtomOperands}
    \cup {Adj_Parens(a, b) : a \in AtomOperands, b \in AtomOperands}
    \cup {Adj_Open(a, b, c) : a \in AtomOperands, b \in AtomOperands, c \in AtomOperands}
    \cup {<<Q_Adj(x, y)>> : x \in TokenTexts, y \in TokenTexts}

\* phrases, proximity queries, and a phrase followed by its proximity form
PhraseBatches ==
    {<<Q_Phrase(ts)>> : ts \in PhraseContents} \cup {<<<<QUOTE, " ", QUOTE>>>>}

ProximityBatches ==
    {<<Q_Prox(Q_Phrase(ts), n)>> : ts \in PhraseContents, n \in 0..MaxDist}
    \cup {<<Q_Prox(w, n)>> : w \in {W_a, W_x}, n \in 0..MaxDist}

Widen(ts, n) == <<Q_Phrase(ts), Q_Prox(Q_Phrase(ts), n)>>

WidenBatches == UNION {{Widen(ts, n) : n \in Len(ts)..MaxDist} : ts \in PhraseContents}

\* the queries of the end-to-end scenario
ScenarioQueries ==
    <<W_brown,
      Q_And(W_brown, W_fox),
      Q_Or(W_brown, W_bear),
      Q_And(W_brown, Q_Not(W_fox)),
      Q_Phrase(<<W_quick, W_fox>>),
      Q_Phrase(<<W_brown, W_dog>>),
      Q_Prox(Q_Phrase(<<W_the, W_fox>>), 3),
      Q_Adj(Q_Prox(W_quick, 2), W_fox),
      Q_And(Q_Paren(Q_Or(W_brown, W_bear)), Q_Not(W_dog))>>

ScenarioBatches == {<<ScenarioQueries[i]>> : i \in 1..Len(ScenarioQueries)}

WordBatches == {<<w>> : w \in BareWords}

\* an input file with a blank line and a query between spaces
PaddedBatches == {<<<<" ">>, <<" ">> \o W_a \o <<" ">>, W_b>>}

\* !t for terms of the corpora and for a term of none of them
ComplementTerms == {W_a, W_b, W_c, W_x, W_fox}

ComplementBatches == {<<Q_Not(w)>> : w \in ComplementTerms}

\* queries of up to MaxQueryTokens lexer tokens in any order: stray and
\* repeated operators, unbalanced parentheses, a lone slash
MalformedTokens == {W_a, W_b, AND, OR, NOT, LPAREN, RPAREN, SLASH}

MalformedBatches ==
    {<<Join(ts)>> : ts \in SeqsUpTo(MalformedTokens, MaxQueryTokens) \ {<<>>}}

\* the input files of the modelled batch runs: sequences of queries
\* the bare words that begin with PHRASE: or NUM:, alone and after the word
\* a, with and without a '/':
\* <<query, the processed_tokens of the query when each of its words is a TERM>>
PrefixCases ==
    {<<W_PhraseA, <<Tok("TERM", W_PhraseA, 0)>>>>,
     <<W_Num5, <<Tok("TERM", W_Num5, 0)>>>>,
     <<W_NumX, <<Tok("TERM", W_NumX, 0)>>>>,
     <<Q_Adj(W_a, W_Num5), <<Tok("TERM", W_a, 0), Tok("TERM", W_Num5, 0)>>>>,
     <<W_a \o <<" ", "/", " ">> \o W_Num5, <<Tok("TERM", W_a, 0), Tok("TERM", W_Num5, 0)>>>>,
     <<W_a \o <<" ", "/", " ">> \o W_NumX, <<Tok("TERM", W_a, 0), Tok("TERM", W_NumX, 0)>>>>}

PrefixBatches == {<<c[1]>> : c \in PrefixCases}

Batches ==
    LawBatches \cup NotBatches \cup PrecedenceBatches \cup AdjacencyBatches
    \cup PhraseBatches \cup ProximityBatches \cup WidenBatches
    \cup ScenarioBatches \cup WordBatches \cup PaddedBatches \cup ComplementBatches
    \cup MalformedBatches \cup PrefixBatches

(***************************************************************************)
(* The codec on its own: a list of numbers is delta-coded and varbyte-     *)
(* coded into one byte string, which is then decoded number by number.     *)
(***************************************************************************)
NoCodec ==
    [stage |-> "idle", xs |-> <<>>, deltas |-> <<>>, bytes |-> <<>>, numbers |-> <<>>,
     offset |-> 0]

\* no codec run is under way
NoPipe == [unread |-> <<>>, calls |-> <<>>]

Threads == {1, 2}

NoFetches == [th \in Threads |-> NoFetch]

NoWeb == [pipe |-> <<>>, buffer |-> <<>>, calls |-> <<>>, lost |-> 0]

AuxIdle == codec = NoCodec /\ pipe = NoPipe /\ fetches = NoFetches /\ web = NoWeb

(***************************************************************************)
(* The build: build_index, then a reader opened on its output.             *)
(***************************************************************************)
NoDocsFile == [magic |-> <<>>, version |-> 0, count |-> 0, records |-> <<>>]

NoDictFile == [magic |-> <<>>, version |-> 0, count |-> 0, entries |-> <<>>]

NoLookup == [called |-> FALSE, term |-> <<>>, ok |-> TRUE, map |-> EmptyMap]

NoTokenize ==
    [called |-> FALSE, text |-> <<>>, tokens |-> <<>>, dead_before |-> FALSE, dead |-> FALSE]

IndexNames == {"index.docs", "index.dict", "index.postings"}

\* what out_dir holds before a build: nothing, or the index of an earlier
\* build with a stray file and a temp directory with a block file:
\* [names, temp, files]
OldSource == SourceOf(<<W_x>>)

PreExisting ==
    {[names |-> {}, temp |-> EmptyMap,
      files |-> [docs |-> NoDocsFile, dict |-> NoDictFile, post |-> <<>>]],
     [names |-> IndexNames \cup {"notes.txt", "temp"}, temp |-> (7 :> <<>>),
      files |-> [docs |-> write_docs_index(BuiltFrom(OldSource).doc_infos),
                 dict |-> merge_blocks(BuiltFrom(OldSource).temp_dir,
                                       BuiltFrom(OldSource).block_id).dict,
                 post |-> merge_blocks(BuiltFrom(OldSource).temp_dir,
                                       BuiltFrom(OldSource).block_id).post]]}

\* the builder's locals as one record
Locals ==
    [doc_infos |-> doc_infos, local_index |-> local_index, temp_dir |-> temp_dir,
     docs_processed |-> docs_processed, block_id |-> block_id]

SetLocals(b) ==
    /\ doc_infos' = b.doc_infos
    /\ local_index' = b.local_index
    /\ temp_dir' = b.temp_dir
    /\ docs_processed' = b.docs_processed
    /\ block_id' = b.block_id

\* the builder's locals in an initial state
SetLocalsTo(b) ==
    /\ doc_infos = b.doc_infos
    /\ local_index = b.local_index
    /\ temp_dir = b.temp_dir
    /\ docs_processed = b.docs_processed
    /\ block_id = b.block_id

\* before build_index is called on out_dir
BuildFrom(sources) ==
    /\ source \in sources
    /\ pc = "start"
    /\ \E old \in PreExisting :
        /\ out_dir = old.names
        /\ before = old.names
        /\ temp_dir = old.temp
        /\ docs_file = old.files.docs
        /\ dict_file = old.files.dict
        /\ post_file = old.files.post
    /\ doc_infos = <<>> /\ local_index = EmptyMap
    /\ docs_processed = 0 /\ block_id = 0
    /\ tokenizer = LiveTokenizer /\ tokenized = NoTokenize
    /\ r_doc_infos = <<>> /\ term_dict = EmptyMap /\ cursor = 0
    /\ looked = NoLookup
    /\ input_lines = <<>> /\ results = <<>>
    /\ AuxIdle

InitBuild == BuildFrom(Sources)

\* build_index up to the loop (lines 145-166)
StartBuild ==
    /\ pc = "start"
    /\ out_dir' = start_dir(out_dir)
    /\ docs_file' = NoDocsFile /\ dict_file' = NoDictFile /\ post_file' = <<>>
    /\ SetLocals(NewBuild)
    /\ pc' = "indexing"
    /\ UNCHANGED <<source, auxVars, before, tokVars, readerVars, cursor, looked, queryVars>>

\* one iteration of the loop over the source cursor (lines 169-184); when
\* dies, the tokenizer exits once it has printed `printed` lines of its answer
IndexDocumentOn(dies, printed) ==
    /\ pc = "indexing"
    /\ docs_processed < Len(source)
    /\ LET doc == source[docs_processed + 1]
           t == tokenize_on(tokenizer, doc[3], IF dies THEN printed ELSE Len(doc[3]) + 1)
       IN /\ SetLocals(index_tokens(Locals, doc, t.tokens, BlockSize))
          /\ tokenizer' = t.p
          /\ tokenized' = [called |-> TRUE, text |-> doc[3], tokens |-> t.tokens,
                           dead_before |-> ~tokenizer.alive, dead |-> ~t.p.alive]
    /\ UNCHANGED <<source, auxVars, pc, fileVars, readerVars, cursor, looked, queryVars>>

\* the iteration with a tokenizer that answers in full
IndexDocument == IndexDocumentOn(FALSE, 0)

\* build_index after the loop: the tail spill, tokenizer.close() in the
\* finally block, then write_docs_index, merge_blocks and the removal of the
\* temp directory; an exception of close() leaves build_index before the files
\* are written
FinishBuild ==
    /\ pc = "indexing"
    /\ docs_processed = Len(source)
    /\ IF close_raises(tokenizer)
       THEN /\ SetLocals(spill_tail(Locals))
            /\ pc' = "aborted"
            /\ UNCHANGED fileVars
       ELSE /\ docs_file' = index_files(spill_tail(Locals)).docs
            /\ dict_file' = index_files(spill_tail(Locals)).dict
            /\ post_file' = index_files(spill_tail(Locals)).post
            /\ out_dir' = finish_dir(out_dir)
            /\ before' = before
            /\ SetLocals([spill_tail(Locals) EXCEPT !.temp_dir = EmptyMap])
            /\ pc' = "built"
    /\ tokenizer' = closed(tokenizer)
    /\ UNCHANGED <<source, auxVars, tokenized, readerVars, cursor, looked, queryVars>>

\* CompressedIndexReader.__init__
OpenReader ==
    /\ pc = "built"
    /\ LET d == load_docs(docs_file)
           t == load_dict(dict_file)
       IN IF d.ok /\ t.ok
          THEN /\ r_doc_infos' = d.doc_infos
               /\ term_dict' = t.term_dict
               /\ pc' = "open"
          ELSE /\ UNCHANGED readerVars
               /\ pc' = "failed"
    /\ cursor' = 0
    /\ UNCHANGED <<source, auxVars, buildVars, fileVars, tokVars, looked, queryVars>>

\* the terms looked up in the modelled builds: the vocabulary and an absent term
LookupTerms == BuildVocab \cup {W_x}

\* reader.get_postings(term)
GetPostings(term) ==
    /\ pc = "open"
    /\ LET p == Postings(term, cursor)
       IN /\ looked' = [called |-> TRUE, term |-> term, ok |-> p.ok, map |-> p.map]
          /\ cursor' = p.fpos
    /\ UNCHANGED <<source, auxVars, pc, buildVars, fileVars, tokVars, readerVars, queryVars>>

NextBuild ==
    \/ StartBuild
    \/ IndexDocument
    \/ FinishBuild
    \/ OpenReader
    \/ \E term \in LookupTerms : GetPostings(term)

SpecBuild == InitBuild /\ [][NextBuild]_vars

\* build_index alone, no reader being opened on its output
NextSpill ==
    \/ StartBuild
    \/ IndexDocument
    \/ FinishBuild

SpecSpill == InitBuild /\ [][NextSpill]_vars

(***************************************************************************)
(* The build with a tokenizer process that can exit at any moment.         *)
(***************************************************************************)
MortalTexts == {<<>>, W_a, Join(<<W_a, W_b>>)}

MortalSources == {SourceOf(texts) : texts \in SeqsUpTo(MortalTexts, MaxDocs)}

InitMortal == BuildFrom(MortalSources)

\* the tokenizer process exits between two calls of tokenize
TokenizerDies ==
    /\ pc = "indexing"
    /\ tokenizer.alive
    /\ tokenizer' = [tokenizer EXCEPT !.alive = FALSE]
    /\ UNCHANGED <<source, auxVars, pc, buildVars, fileVars, tokenized, readerVars, cursor,
                   looked, queryVars>>

\* an iteration during which the tokenizer process exits after it has read
\* the request and printed `printed` lines of its answer
DyingIndexDocument(printed) == tokenizer.alive /\ IndexDocumentOn(TRUE, printed)

NextMortal ==
    \/ StartBuild
    \/ IndexDocument
    \/ \E printed \in 0..MaxTokens : DyingIndexDocument(printed)
    \/ TokenizerDies
    \/ FinishBuild

SpecMortal == InitMortal /\ [][NextMortal]_vars

(***************************************************************************)
(* A reader opened on an index directory whose files carry other headers:  *)
(* the files of a build with the magic and the version of each replaced.   *)
(***************************************************************************)
\* the version the builder writes, an older and a newer one
Versions == {VERSION - 1, VERSION, VERSION + 1}

\* four bytes that are the magic of no index file
BAD_MAGIC == <<88, 88, 88, 88>>

OpenSources == {SourceOf(<<W_a>>), SourceOf(<<W_a, Join(<<W_a, LONG255>>)>>)}

\* index.docs or index.dict with the first six bytes replaced
WithHeader(file, magic, version) == [file EXCEPT !.magic = magic, !.version = version]

\* index.postings with the first six bytes replaced
PostWithHeader(bytes, magic, version) == magic \o PackU16(version) \o Drop(bytes, 6)

\* the magic and the version of the header of index.postings
PostMagic == Take(post_file, 4)

PostVersion == post_file[5] + 256 * post_file[6]

\* an index directory written by build_index, then headers replaced
InitOpen ==
    /\ source \in OpenSources
    /\ pc = "built"
    /\ SetLocalsTo([BuiltFrom(source) EXCEPT !.temp_dir = EmptyMap])
    /\ \E docs_magic \in {MAGIC_DOCS, BAD_MAGIC}, dict_magic \in {MAGIC_DICT, BAD_MAGIC},
          post_magic \in {MAGIC_POST, BAD_MAGIC},
          docs_version \in Versions, dict_version \in Versions, post_version \in Versions :
        /\ docs_file = WithHeader(index_files(BuiltFrom(source)).docs, docs_magic, docs_version)
        /\ dict_file = WithHeader(index_files(BuiltFrom(source)).dict, dict_magic, dict_version)
        /\ post_file = PostWithHeader(index_files(BuiltFrom(source)).post, post_magic, post_version)
    /\ out_dir = IndexNames /\ before = {}
    /\ tokenizer = ClosedTokenizer /\ tokenized = NoTokenize
    /\ r_doc_infos = <<>> /\ term_dict = EmptyMap /\ cursor = 0
    /\ looked = NoLookup
    /\ input_lines = <<>> /\ results = <<>>
    /\ AuxIdle

NextOpen ==
    \/ OpenReader
    \/ \E term \in LookupTerms : GetPostings(term)

SpecOpen == InitOpen /\ [][NextOpen]_vars

(***************************************************************************)
(* The codec run: its inputs and its steps.                                *)
(***************************************************************************)
\* the numbers of the modelled lists: a negative one, and the least and the
\* greatest numbers of one, two and three bytes
CodecValues == {-1, 0, 1, 127, 128, 129, 16383, 16384, 2097151, 2097152}

\* everything but the codec is at rest
RestIdle ==
    /\ source = <<>> /\ pc = "idle"
    /\ SetLocalsTo(NewBuild)
    /\ docs_file = NoDocsFile /\ dict_file = NoDictFile /\ post_file = <<>>
    /\ out_dir = {} /\ before = {}
    /\ tokenizer = LiveTokenizer /\ tokenized = NoTokenize
    /\ r_doc_infos = <<>> /\ term_dict = EmptyMap /\ cursor = 0
    /\ looked = NoLookup
    /\ input_lines = <<>> /\ results = <<>>

InitCodec ==
    /\ RestIdle
    /\ \E xs \in SeqsUpTo(CodecValues, MaxNumbers) :
          codec = [NoCodec EXCEPT !.stage = "input", !.xs = xs]
    /\ pipe = NoPipe /\ fetches = NoFetches /\ web = NoWeb

\* compression.encode_delta(xs), then compression.encode_varbyte of each
\* delta, the bytes joined; a negative delta raises ValueError.  The two
\* functions are called on the list as it is: the sort that write_term_entry
\* does before it calls them is in PostingBlock, not here.
EncodeNumbers ==
    /\ codec.stage = "input"
    /\ codec' =
          IF \E i \in 1..Len(codec.xs) : encode_varbyte_raises(encode_delta(codec.xs)[i])
          THEN [codec EXCEPT !.stage = "raised", !.deltas = encode_delta(codec.xs)]
          ELSE [codec EXCEPT !.stage = "encoded",
                             !.deltas = encode_delta(codec.xs),
                             !.bytes = Flatten([i \in 1..Len(codec.xs) |->
                                           encode_varbyte(encode_delta(codec.xs)[i])])]
    /\ UNCHANGED <<mainVars, pipe, fetches, web>>

\* one call decode_varbyte_stream(bytes, offset), from the offset the call
\* before returned
DecodeNumber ==
    /\ codec.stage = "encoded"
    /\ Len(codec.numbers) < Len(codec.xs)
    /\ codec' =
          IF decode_varbyte_stream(codec.bytes, codec.offset).ok
          THEN [codec EXCEPT
                   !.numbers = Append(@, decode_varbyte_stream(codec.bytes, codec.offset).number),
                   !.offset = decode_varbyte_stream(codec.bytes, codec.offset).offset]
          ELSE [codec EXCEPT !.stage = "raised"]
    /\ UNCHANGED <<mainVars, pipe, fetches, web>>

\* decode_delta of the numbers decoded
DecodeDelta ==
    /\ codec.stage = "encoded"
    /\ Len(codec.numbers) = Len(codec.xs)
    /\ codec' = [codec EXCEPT !.stage = "decoded", !.numbers = decode_delta(codec.numbers)]
    /\ UNCHANGED <<mainVars, pipe, fetches, web>>

NextCodec ==
    \/ EncodeNumbers
    \/ DecodeNumber
    \/ DecodeDelta

SpecCodec == InitCodec /\ [][NextCodec]_vars

(***************************************************************************)
(* The reader on the index of a large corpus: the postings of term a hold  *)
(* numbers of one to five bytes and its block runs over several chunks of  *)
(* BufferSize bytes; the block of term b ends the file.                    *)
(***************************************************************************)
WideIds == {0, 1, 200, 20000, 3000000, 300000000}

WidePositions == {<<0>>, <<5, 300>>, <<70000, 300000000>>, <<1, 2, 3, 4, 5, 6, 7>>}

WideMaps ==
    UNION {[D -> WidePositions] :
              D \in {ids \in SUBSET WideIds : Cardinality(ids) \in 1..MaxPostings}}

TailMaps == {(0 :> <<0>>), (7 :> <<70000, 300000000>>) @@ (300000 :> <<5, 300>>)}

\* index.dict and index.postings as merge_blocks writes them from one block
\* file holding the two terms
WideFiles(doc_map, tail_map) ==
    merge_blocks((0 :> <<<<W_a, doc_map>>, <<W_b, tail_map>>>>), 1)

\* a reader opened on a directory whose index.docs is the one write_docs_index
\* writes for no documents and whose other two files merge_blocks wrote
InitSliding ==
    /\ source = <<>>
    /\ pc = "open"
    /\ SetLocalsTo(NewBuild)
    /\ docs_file = write_docs_index(<<>>)
    /\ \E doc_map \in WideMaps, tail_map \in TailMaps :
          /\ dict_file = WideFiles(doc_map, tail_map).dict
          /\ post_file = WideFiles(doc_map, tail_map).post
    /\ out_dir = IndexNames /\ before = {}
    /\ tokenizer = ClosedTokenizer /\ tokenized = NoTokenize
    /\ r_doc_infos = load_docs(docs_file).doc_infos
    /\ term_dict = load_dict(dict_file).term_dict
    /\ cursor = 0
    /\ looked = NoLookup
    /\ input_lines = <<>> /\ results = <<>>
    /\ AuxIdle

NextSliding == \E term \in {W_a, W_b, W_x} : GetPostings(term)

SpecSliding == InitSliding /\ [][NextSliding]_vars

(***************************************************************************)
(* The tokenizer adapter on its own: tokenize calls, one after the other,  *)
(* on one live tokenizer process.                                          *)
(***************************************************************************)
PipeTexts ==
    {<<>>, <<"a">>, <<"b">>, <<"A", " ", "b">>, <<"a", "\n", "b">>, <<"\n">>, <<" ">>,
     <<"a", "\n">>, <<"\n", "a">>, <<"a", "\n", "\n", "b">>, END_DOC,
     <<"a", " ">> \o END_DOC \o <<"\n", "b">>}

InitPipe ==
    /\ RestIdle
    /\ codec = NoCodec /\ pipe = NoPipe /\ fetches = NoFetches /\ web = NoWeb

\* one tokenize call; it returns once the process has answered
Tokenize(text) ==
    /\ Len(pipe.calls) < MaxCalls
    /\ (pipe.calls # <<>> => pipe.calls[Len(pipe.calls)].ended)
    /\ pipe' = [unread |-> tokenize_piped(pipe.unread, text).unread,
                calls |-> Append(pipe.calls, tokenize_piped(pipe.unread, text))]
    /\ UNCHANGED <<mainVars, codec, fetches, web>>

NextPipe == \E text \in PipeTexts : Tokenize(text)

SpecPipe == InitPipe /\ [][NextPipe]_vars

(***************************************************************************)
(* Queries: main_cli runs the lines of an input file through one engine    *)
(* over an index built from one of the query corpora.                      *)
(***************************************************************************)
\* a reader and an engine opened on the index that build_index writes for src
IndexReady(src) ==
    /\ source = src
    /\ pc = "open"
    /\ LET b == BuiltFrom(src)
           files == index_files(b)
       IN /\ doc_infos = b.doc_infos /\ local_index = b.local_index
          /\ temp_dir = EmptyMap
          /\ docs_processed = b.docs_processed /\ block_id = b.block_id
          /\ docs_file = files.docs /\ dict_file = files.dict /\ post_file = files.post
          /\ out_dir = IndexNames /\ before = {}
          /\ tokenizer = ClosedTokenizer /\ tokenized = NoTokenize
          /\ r_doc_infos = load_docs(files.docs).doc_infos
          /\ term_dict = load_dict(files.dict).term_dict
    /\ cursor = 0
    /\ looked = NoLookup

InitQuery ==
    /\ \E src \in QuerySources : IndexReady(src)
    /\ input_lines \in Batches
    /\ results = <<>>
    /\ AuxIdle

\* the queries main_cli runs for the lines of the input file (lines 332-334):
\* q = line.strip(), blank lines skipped
IsQueryLine(line) == Strip(line) # <<>>

QueryLines(lines) ==
    LET kept == SelectSeq(lines, IsQueryLine) IN [i \in 1..Len(kept) |-> Strip(kept[i])]

\* one iteration of the loop of main_cli over the input file (lines 332-350):
\* results = engine.execute(q), an exception being caught and reported
ExecuteLine ==
    /\ pc = "open"
    /\ Len(results) < Len(QueryLines(input_lines))
    /\ LET q == QueryLines(input_lines)[Len(results) + 1]
           r == execute(q)
           folded == Fold(tokenize_query(q), 0, <<>>)
       IN /\ results' = Append(results,
                 [query |-> q, raised |-> r.raised, docs |-> r.docs,
                  processed |-> folded.tokens,
                  final |-> IF folded.ok THEN InsertAnds(folded.tokens) ELSE <<>>])
          /\ cursor' = r.fpos
    /\ UNCHANGED <<source, auxVars, pc, buildVars, fileVars, tokVars, readerVars, looked,
                   input_lines>>

NextQuery == ExecuteLine

SpecQuery == InitQuery /\ [][NextQuery]_vars

(***************************************************************************)
(* Queries and lookups on an index whose index.postings was cut short.     *)
(***************************************************************************)
CorruptSource == SourceOf(<<Join(<<W_a, W_b>>), Join(<<W_b, W_a, W_b>>)>>)

CorruptTerms == {W_a, W_b, W_x}

CorruptBatches ==
    {<<W_a>>, <<W_b>>, <<W_x>>, <<Q_Or(W_a, W_b)>>, <<Q_Not(W_b)>>,
     <<Q_Phrase(<<W_a, W_b>>)>>, <<W_b, W_a>>}

\* the lengths index.postings is cut to: from the header alone to the whole
\* file
CutLengths == 6..Len(index_files(BuiltFrom(CorruptSource)).post)

\* a reader and an engine on the index of CorruptSource, index.postings
\* holding only its first bytes
InitCorrupt ==
    /\ source = CorruptSource
    /\ pc = "open"
    /\ SetLocalsTo([BuiltFrom(source) EXCEPT !.temp_dir = EmptyMap])
    /\ docs_file = index_files(BuiltFrom(source)).docs
    /\ dict_file = index_files(BuiltFrom(source)).dict
    /\ \E n \in CutLengths : post_file = Take(index_files(BuiltFrom(source)).post, n)
    /\ out_dir = IndexNames /\ before = {}
    /\ tokenizer = ClosedTokenizer /\ tokenized = NoTokenize
    /\ r_doc_infos = load_docs(docs_file).doc_infos
    /\ term_dict = load_dict(dict_file).term_dict
    /\ cursor = 0
    /\ looked = NoLookup
    /\ input_lines \in CorruptBatches
    /\ results = <<>>
    /\ AuxIdle

NextCorrupt ==
    \/ ExecuteLine
    \/ \E term \in CorruptTerms : GetPostings(term)

SpecCorrupt == InitCorrupt /\ [][NextCorrupt]_vars

(***************************************************************************)
(* Two threads that call get_postings on one reader.  A thread can be      *)
(* switched out between any two operations on the file handle.             *)
(***************************************************************************)
RaceSources == {CorruptSource, SmallSource}

InitRace ==
    /\ \E src \in RaceSources : IndexReady(src)
    /\ input_lines = <<>> /\ results = <<>>
    /\ codec = NoCodec /\ pipe = NoPipe /\ fetches = NoFetches /\ web = NoWeb

Active(f) == f.stage \in {"seeked", "refill"}

\* thread th calls get_postings(term); the calls of the threads overlap
\* when the other thread is inside a call
CallFetch(th, term) ==
    /\ pc = "open"
    /\ ~Active(fetches[th])
    /\ fetches[th].calls < MaxCalls
    /\ fetches' =
          [o \in Threads |->
              IF o = th
              THEN [StartFetch(fetches[th], term_dict, term, cursor).f EXCEPT
                       !.overlapped = Active(StartFetch(fetches[th], term_dict, term, cursor).f)
                                      /\ \E x \in Threads \ {th} : Active(fetches[x])]
              ELSE IF Active(fetches[o])
                      /\ Active(StartFetch(fetches[th], term_dict, term, cursor).f)
                   THEN [fetches[o] EXCEPT !.overlapped = TRUE]
                   ELSE fetches[o]]
    /\ cursor' = StartFetch(fetches[th], term_dict, term, cursor).cursor
    /\ UNCHANGED <<source, pc, buildVars, fileVars, tokVars, readerVars, looked, queryVars,
                   codec, pipe, web>>

\* thread th does the read it waits for and runs on
ReadFetch(th) ==
    /\ pc = "open"
    /\ Active(fetches[th])
    /\ fetches' =
          [fetches EXCEPT ![th] =
              IF fetches[th].stage = "seeked" THEN FirstRead(fetches[th], post_file, cursor).f
              ELSE RefillRead(fetches[th], post_file, cursor).f]
    /\ cursor' =
          IF fetches[th].stage = "seeked" THEN FirstRead(fetches[th], post_file, cursor).cursor
          ELSE RefillRead(fetches[th], post_file, cursor).cursor
    /\ UNCHANGED <<source, pc, buildVars, fileVars, tokVars, readerVars, looked, queryVars,
                   codec, pipe, web>>

NextRace ==
    \/ \E th \in Threads, term \in CorruptTerms : CallFetch(th, term)
    \/ \E th \in Threads : ReadFetch(th)

SpecRace == InitRace /\ [][NextRace]_vars

(***************************************************************************)
(* app.py: SearchEngine.search on one live engine process.  The engine     *)
(* binary is an external process; it answers every newline-terminated      *)
(* input line with a header line Found <N>, one line per document found    *)
(* and a sentinel line __END_QUERY__, over the index of the state.  What   *)
(* it prints for a query it cannot run is not specified: Found 0 or a      *)
(* line that does not start with Found, followed by the sentinel.  A line  *)
(* of process.stdout is [kind, call, doc]: call is the call whose request  *)
(* the line answers.  process.stdout is one buffered text stream (lines    *)
(* 18-24: text=True, bufsize=1) that every call of search reads with       *)
(* readline: web.pipe holds the lines the engine has written and no read   *)
(* has taken from the pipe, web.buffer the lines the stream has taken and  *)
(* has not handed out yet, web.calls the calls of search, and web.lost     *)
(* the number of lines that left the buffer without reaching a call.       *)
(***************************************************************************)
WebLine(kind, call, doc) == [kind |-> kind, call |-> call, doc |-> doc]

\* the answer of the engine to one input line
EngineAnswer(line, call, fails) ==
    IF execute(line).raised
    THEN <<WebLine(IF fails THEN "Error" ELSE "Found", call, 0),
           WebLine("END_QUERY", call, 0)>>
    ELSE <<WebLine("Found", call, Cardinality(execute(line).docs))>>
         \o [i \in 1..Cardinality(execute(line).docs) |->
                WebLine("result", call, SortedInts(execute(line).docs)[i])]
         \o <<WebLine("END_QUERY", call, 0)>>

\* the answers of the engine to the bytes written to its stdin
EngineAnswers(bytes, call, fails) ==
    Flatten([i \in 1..Len(InputLines(bytes, <<>>)) |->
                EngineAnswer(InputLines(bytes, <<>>)[i], call, fails)])

\* what search writes to process.stdin (line 32)
WebRequest(query) == query \o <<"\n">>

\* no line read yet
NoLine == WebLine("none", 0, 0)

\* lines 28-33: the call of thread th has written its request and calls
\* readline for the header; alone tells that no other call was running.  at
\* is where the call is inside readline: looking at the buffer of the stream,
\* reading the pipe, or holding the chunk it read
NewCall(th, query, alone) ==
    [th |-> th, query |-> query, alone |-> alone, stage |-> "written",
     header |-> NoLine, results |-> <<>>, total |-> 0, unread |-> <<>>,
     at |-> "buffer", chunk |-> <<>>]

\* lines 36-44 on the line readline returned, rest being the lines left in
\* process.stdout: a header that does not start with Found returns at once
read_header(c, line, rest) ==
    IF line.kind # "Found"
    THEN [c EXCEPT !.header = line, !.stage = "returned", !.unread = rest]
    ELSE [c EXCEPT !.header = line, !.total = line.doc, !.stage = "reading"]

\* one iteration of the loop of lines 46-58: the sentinel ends the call, every
\* other line is a result
read_line(c, line, rest) ==
    IF line.kind = "END_QUERY"
    THEN [c EXCEPT !.stage = "returned", !.unread = rest]
    ELSE [c EXCEPT !.results = Append(@, line)]

\* queries of the web form: words, an operator, a query that holds a newline
\* and a query on which execute raises
WebQueries ==
    {W_a, W_c, Q_Not(W_b), W_a \o <<"\n">> \o W_b, W_a \o <<" ", "/", " ">> \o W_NumX}

InitWeb ==
    /\ IndexReady(SmallSource)
    /\ input_lines = <<>> /\ results = <<>>
    /\ codec = NoCodec /\ pipe = NoPipe /\ fetches = NoFetches /\ web = NoWeb

\* the calls of thread th that have not returned
Running(th) ==
    {i \in 1..Len(web.calls) : web.calls[i].th = th /\ web.calls[i].stage # "returned"}

\* a request thread calls engine.search(query) and writes the request
\* (lines 28-33); the engine process answers each line it reads in turn.  The
\* server runs every request in a thread of its own: th is the first thread
\* that is not inside search
CallSearch(th, query, fails) ==
    /\ Running(th) = {}
    /\ \A o \in Threads : o < th => Running(o) # {}
    /\ Len(web.calls) < MaxCalls
    /\ web' = [web EXCEPT
                  !.pipe = @ \o EngineAnswers(WebRequest(query), Len(web.calls) + 1, fails),
                  !.calls = Append(@, NewCall(th, query, \A o \in Threads : Running(o) = {}))]
    /\ UNCHANGED <<mainVars, codec, pipe, fetches>>

\* readline of line 36 or 47, called by thread th, finds a line in the buffer
\* of the stream and returns it; the code runs on to the next readline
TakeLine(th) ==
    /\ web.buffer # <<>>
    /\ \E i \in Running(th) :
          /\ web.calls[i].at = "buffer"
          /\ web' = [web EXCEPT
                        !.buffer = Tail(@),
                        !.calls[i] =
                            IF @.stage = "written"
                            THEN read_header(@, Head(web.buffer), Tail(web.buffer) \o web.pipe)
                            ELSE read_line(@, Head(web.buffer), Tail(web.buffer) \o web.pipe)]
    /\ UNCHANGED <<mainVars, codec, pipe, fetches>>

\* readline finds the buffer empty and starts a read of the pipe, in which
\* it waits while the pipe is empty, whatever comes into the buffer meanwhile
EnterRead(th) ==
    /\ web.buffer = <<>>
    /\ \E i \in Running(th) :
          /\ web.calls[i].at = "buffer"
          /\ web' = [web EXCEPT !.calls[i].at = "pipe"]
    /\ UNCHANGED <<mainVars, codec, pipe, fetches>>

\* the read of the pipe returns what the engine has written so far: the
\* first n lines of the pipe; the calling thread holds them
ReadChunk(th) ==
    \E i \in Running(th), n \in 1..Len(web.pipe) :
        /\ web.calls[i].at = "pipe"
        /\ web' = [web EXCEPT
                      !.pipe = SubSeq(@, n + 1, Len(@)),
                      !.calls[i].at = "chunk",
                      !.calls[i].chunk = SubSeq(web.pipe, 1, n)]
        /\ UNCHANGED <<mainVars, codec, pipe, fetches>>

\* readline puts its chunk in the place of the buffer and returns the first
\* line of it: the lines another thread's readline left in the buffer in the
\* meantime are lost, and a chunk read earlier may be stored later
StoreChunk(th) ==
    /\ \E i \in Running(th) :
          /\ web.calls[i].at = "chunk"
          /\ web' = [web EXCEPT
                        !.buffer = Tail(web.calls[i].chunk),
                        !.lost = @ + Len(web.buffer),
                        !.calls[i] =
                            IF @.stage = "written"
                            THEN read_header([@ EXCEPT !.at = "buffer", !.chunk = <<>>],
                                             Head(@.chunk), Tail(@.chunk) \o web.pipe)
                            ELSE read_line([@ EXCEPT !.at = "buffer", !.chunk = <<>>],
                                           Head(@.chunk), Tail(@.chunk) \o web.pipe)]
    /\ UNCHANGED <<mainVars, codec, pipe, fetches>>

\* the request threads of the server (app.run, line 89) share the one engine
\* of line 64 and take no lock: the steps of their readline calls interleave
NextWeb ==
    \/ \E th \in Threads, query \in WebQueries, fails \in BOOLEAN : CallSearch(th, query, fails)
    \/ \E th \in Threads : TakeLine(th)
    \/ \E th \in Threads : EnterRead(th)
    \/ \E th \in Threads : ReadChunk(th)
    \/ \E th \in Threads : StoreChunk(th)

SpecWeb == InitWeb /\ [][NextWeb]_vars

(***************************************************************************)
(* What the documents of the source hold, read from their token streams.   *)
(***************************************************************************)
\* the tokens of the document with DocId d
DocTokens(d) == TokenizerClient_tokenize(source[d + 1][3])

Universe == 0..(Len(source) - 1)

EmittedTerms == UNION {Range(DocTokens(d)) : d \in Universe}

\* the positions of term t in document d, ascending
TruePositions(d, t) ==
    SortedInts({p \in 0..(Len(DocTokens(d)) - 1) : DocTokens(d)[p + 1] = t})

\* DocId -> ascending positions of t, over the documents that hold t
TruePostings(t) ==
    [d \in {e \in Universe : t \in Range(DocTokens(e))} |-> TruePositions(d, t)]

SameMap(m1, m2) == DOMAIN m1 = DOMAIN m2 /\ \A k \in DOMAIN m1 : m1[k] = m2[k]

\* the documents with positions p1 < ... < pk, pi a position of terms[i],
\* and pk - p1 <= n
SpanDocs(terms, n) ==
    {d \in Universe :
        \E p \in [1..Len(terms) -> 0..(Len(DocTokens(d)) - 1)] :
            /\ \A i \in 1..Len(terms) : DocTokens(d)[p[i] + 1] = terms[i]
            /\ \A i \in 1..(Len(terms) - 1) : p[i] < p[i + 1]
            /\ p[Len(terms)] - p[1] <= n}

\* the documents where terms[i] is at position p + i - 1 for some p
AdjacentDocs(terms) ==
    {d \in Universe :
        \E p \in 0..(Len(DocTokens(d)) - 1) :
            \A i \in 1..Len(terms) :
                p + i - 1 < Len(DocTokens(d)) /\ DocTokens(d)[p + i] = terms[i]}

\* every line of the input file has been run
Done == results # <<>> /\ Len(results) = Len(QueryLines(input_lines))

\* the set returned for line i; a raised exception returns no set
Returned(i, S) == ~results[i].raised /\ results[i].docs = S

SameResult(i, j) ==
    ~results[i].raised /\ ~results[j].raised /\ results[i].docs = results[j].docs

(***************************************************************************)
(* C1.  Index round-trip: after build_index and the opening of a reader,   *)
(* get_postings(t) of every term t the tokenizer emitted is the map from   *)
(* each DocId that holds t to the ascending positions of t in it.          *)
(***************************************************************************)
C1_RoundTrip ==
    (looked.called /\ looked.term \in EmittedTerms)
        => (looked.ok /\ SameMap(looked.map, TruePostings(looked.term)))

\* the round trip when no emitted term is longer than 255 bytes
RoundTripOfShortTerms ==
    (looked.called /\ looked.term \in EmittedTerms
     /\ \A t \in EmittedTerms : ByteLen(t) <= 255)
        => (looked.ok /\ SameMap(looked.map, TruePostings(looked.term)))

(***************************************************************************)
(* C2.  Boolean laws of execute for operand sub-queries a, b, c:           *)
(* a && !a is empty, a || !a is the universe, !(!a) equals a,              *)
(* a && b equals b && a, a || (b && c) equals (a || b) && (a || c).        *)
(***************************************************************************)
LawsHoldFor(S) ==
    Done =>
        /\ \A a \in S :
            /\ input_lines = Law_Contradiction(a) => Returned(1, {})
            /\ input_lines = Law_ExcludedMiddle(a) => Returned(1, Universe)
            /\ input_lines = Law_DoubleNegation(a) => SameResult(1, 2)
        /\ \A a \in S, b \in S :
            input_lines = Law_Commutative(a, b) => SameResult(1, 2)
        /\ \A a \in S, b \in S, c \in S :
            input_lines = Law_Distributive(a, b, c) => SameResult(1, 2)

C2_BooleanLaws == LawsHoldFor(SubQueries)

\* the laws for the sub-queries that hold no two consecutive NOT operators
LawsWithoutDoubleNot == LawsHoldFor(SubQueries \ {Q_Paren(Q_Not(Q_Not(W_a)))})

(***************************************************************************)
(* C3.  NOT is right-associative: !!x returns the set of !(!x), also       *)
(* inside a || !!b and a && !!b.                                           *)
(***************************************************************************)
C3_NotRightAssociative ==
    Done =>
        /\ \A x \in AtomOperands : input_lines = Not_Double(x) => SameResult(1, 2)
        /\ \A a \in AtomOperands, b \in AtomOperands :
            /\ input_lines = Not_InOr(a, b) => SameResult(1, 2)
            /\ input_lines = Not_InAnd(a, b) => SameResult(1, 2)

(***************************************************************************)
(* C4.  Precedence || < && < ! with parentheses overriding it: with A, B,  *)
(* C the sets of the operands a, b, c, a || b && c returns A \cup (B \cap  *)
(* C), a && b || c returns (A \cap B) \cup C, !a && b returns (U \ A)      *)
(* \cap B and (a || b) && c returns (A \cup B) \cap C.                     *)
(***************************************************************************)
C4_Precedence ==
    Done =>
        /\ \A a \in AtomOperands, b \in AtomOperands, c \in AtomOperands :
            /\ input_lines = Prec_OrAnd(a, b, c) =>
                 Returned(4, results[1].docs \cup (results[2].docs \cap results[3].docs))
            /\ input_lines = Prec_AndOr(a, b, c) =>
                 Returned(4, (results[1].docs \cap results[2].docs) \cup results[3].docs)
            /\ input_lines = Prec_Paren(a, b, c) =>
                 Returned(4, (results[1].docs \cup results[2].docs) \cap results[3].docs)
        /\ \A a \in AtomOperands, b \in AtomOperands :
            input_lines = Prec_NotAnd(a, b) =>
                 Returned(3, (Universe \ results[1].docs) \cap results[2].docs)

\* a || b && c has run where grouping the other way gives another set
C4_Witness ==
    /\ Done
    /\ \E a \in AtomOperands, b \in AtomOperands, c \in AtomOperands :
        /\ input_lines = Prec_OrAnd(a, b, c)
        /\ results[4].docs # (results[1].docs \cup results[2].docs) \cap results[3].docs
        /\ results[4].docs # {}

(***************************************************************************)
(* C5.  Implicit AND: in the processed token list an && is inserted        *)
(* between consecutive tokens x, y exactly when x is an operand or ')' and *)
(* y is an operand, '(' or '!'; so a b equals a && b, a !b equals          *)
(* a && !b, (a) (b) equals (a) && (b), a (b || c) equals a && (b || c).    *)
(***************************************************************************)
IsOperand(tok) == tok.type \in {"TERM", "PHRASE", "PROXIMITY"}

AndExpected(x, y) ==
    /\ IsOperand(x) \/ (x.type = "OP" /\ x.val = RPAREN)
    /\ IsOperand(y) \/ (y.type = "OP" /\ y.val \in {LPAREN, NOT})

WithExpectedAnds(processed) ==
    Flatten([i \in 1..Len(processed) |->
        IF i < Len(processed) /\ AndExpected(processed[i], processed[i + 1])
        THEN <<processed[i], Tok("OP", AND, 0)>>
        ELSE <<processed[i]>>])

C5_ImplicitAnd ==
    /\ \A i \in 1..Len(results) :
        ~results[i].raised => results[i].final = WithExpectedAnds(results[i].processed)
    /\ Done =>
        /\ \A a \in AtomOperands, b \in AtomOperands :
            /\ input_lines = Adj_Plain(a, b) => SameResult(1, 2)
            /\ input_lines = Adj_Not(a, b) => SameResult(1, 2)
            /\ input_lines = Adj_Parens(a, b) => SameResult(1, 2)
        /\ \A a \in AtomOperands, b \in AtomOperands, c \in AtomOperands :
            input_lines = Adj_Open(a, b, c) => SameResult(1, 2)

\* (a) (b) has run: an && was inserted after ')' and the result is not that
\* of (a) alone
C5_Witness ==
    /\ Done
    /\ \E a \in AtomOperands, b \in AtomOperands :
        /\ input_lines = Adj_Parens(a, b)
        /\ Len(results[1].final) = Len(results[1].processed) + 1
        /\ results[1].docs # {}
        /\ \E d \in Universe : d \notin results[1].docs

(***************************************************************************)
(* C6.  Proximity: for every distance n and every content that tokenizes   *)
(* to T1..Tk, the proximity query returns exactly the documents with       *)
(* positions p1 < ... < pk, pi a position of Ti, and pk - p1 <= n; for     *)
(* every n, the number of terms included.                                  *)
(***************************************************************************)
\* the terms of a proximity or phrase content
TermsOf(content) == TokenizerClient_tokenize(content)

ProximityReturns(Expected(_, _)) ==
    Done =>
        /\ \A ts \in PhraseContents, n \in 0..MaxDist :
            input_lines = <<Q_Prox(Q_Phrase(ts), n)>>
                => Returned(1, Expected(TermsOf(Join(ts)), n))
        /\ \A w \in {W_a, W_x}, n \in 0..MaxDist :
            input_lines = <<Q_Prox(w, n)>> => Returned(1, Expected(TermsOf(w), n))

C6_ProximitySpan == ProximityReturns(SpanDocs)

\* the span rule at every distance but the number of terms, where the terms
\* must be adjacent
SpanOrAdjacentDocs(terms, n) ==
    IF n = Len(terms) THEN AdjacentDocs(terms) ELSE SpanDocs(terms, n)

\* what the code returns: the documents within the span when n differs from
\* the number of terms k, and the documents with T1..Tk adjacent when n = k
SpanUnlessPhraseLength == ProximityReturns(SpanOrAdjacentDocs)

\* "a b" / 2 has run on documents where a and b are two positions apart and
\* has left such a document out
AdjacencyAtPhraseLength ==
    /\ Done
    /\ input_lines = <<Q_Prox(Q_Phrase(<<W_a, W_b>>), 2)>>
    /\ results[1].docs # {}
    /\ \E d \in SpanDocs(<<W_a, W_b>>, 2) : d \notin results[1].docs

(***************************************************************************)
(* C7.  Phrase: a quoted phrase whose text tokenizes to T1..Tk returns     *)
(* exactly the documents where, for some p, Ti is at position p + i - 1    *)
(* for every i; a phrase with a term that is not in the dictionary, or     *)
(* with no terms, returns the empty set.                                   *)
(***************************************************************************)
C7_Phrase ==
    Done =>
        /\ \A ts \in PhraseContents :
            input_lines = <<Q_Phrase(ts)>> =>
                /\ Returned(1, AdjacentDocs(TermsOf(Join(ts))))
                /\ (\E i \in 1..Len(ts) : TermsOf(Join(ts))[i] \notin DOMAIN term_dict)
                       => Returned(1, {})
        /\ (input_lines = <<<<QUOTE, " ", QUOTE>>>> /\ TermsOf(<<" ">>) = <<>>)
               => Returned(1, {})

\* the phrase "a b" has run, matched, and left out a document that holds a
\* before b with a term in between
C7_Witness ==
    /\ Done
    /\ input_lines = <<Q_Phrase(<<W_a, W_b>>)>>
    /\ results[1].docs # {}
    /\ \E d \in Universe :
        d \notin results[1].docs /\ d \in SpanDocs(<<W_a, W_b>>, 2)

(***************************************************************************)
(* C8.  Phrase implies proximity: every document the phrase "w1 ... wk"    *)
(* returns is returned by "w1 ... wk" / n for n = k and for every n > k.   *)
(***************************************************************************)
C8_PhraseImpliesProximity ==
    Done =>
        \A ts \in PhraseContents, n \in 0..MaxDist :
            (n >= Len(ts) /\ input_lines = Widen(ts, n)) =>
                /\ ~results[1].raised /\ ~results[2].raised
                /\ results[1].docs \subseteq results[2].docs

\* a phrase matched, and the wider proximity query returned more documents
C8_Witness ==
    /\ Done
    /\ \E ts \in PhraseContents, n \in 0..MaxDist :
        /\ n > Len(ts)
        /\ input_lines = Widen(ts, n)
        /\ results[1].docs # {}
        /\ results[1].docs # results[2].docs

(***************************************************************************)
(* C9.  The scenario: on the index of D0 = the quick brown fox, D1 = the   *)
(* lazy brown dog, D2 = quick fox quick fox, D3 = brown bear sleeps, the   *)
(* nine queries return {0,1,3}, {0}, {0,1,3}, {1,3}, {0,2}, {1}, {0},      *)
(* {0,2} and {0,3}.                                                        *)
(***************************************************************************)
ScenarioReturns(expected) ==
    (source = ScenarioSource /\ Done) =>
        \A i \in 1..Len(ScenarioQueries) :
            input_lines = <<ScenarioQueries[i]>> => Returned(1, expected[i])

C9_Scenario ==
    ScenarioReturns(<<{0, 1, 3}, {0}, {0, 1, 3}, {1, 3}, {0, 2}, {1}, {0}, {0, 2}, {0, 3}>>)

\* C9 as amended: the phrase "quick fox" returns {2}, the only document
\* where fox follows quick at once; the other eight rows stand
C9_ScenarioAmended ==
    ScenarioReturns(<<{0, 1, 3}, {0}, {0, 1, 3}, {1, 3}, {2}, {1}, {0}, {0, 2}, {0, 3}>>)

\* the phrase "quick fox" has run on the scenario's index
C9_Witness ==
    /\ source = ScenarioSource
    /\ Done
    /\ input_lines = <<Q_Phrase(<<W_quick, W_fox>>)>>
    /\ results[1].docs = {2}

(***************************************************************************)
(* C10.  Bare words: a query of one bare word w, words made of or          *)
(* beginning with digits included, returns the keys of get_postings(s0),   *)
(* s0 the first term of tokenize(w), and the empty set when tokenize(w)    *)
(* is empty.                                                               *)
(***************************************************************************)
WordDocs(w) ==
    IF TermsOf(w) = <<>> THEN {}
    ELSE DOMAIN get_postings(term_dict, post_file, TermsOf(w)[1], 0).map

C10_BareWord ==
    Done => \A w \in BareWords : input_lines = <<w>> => Returned(1, WordDocs(w))

\* the rule for the bare words that do not begin with a digit
WordsWithoutLeadingDigit ==
    Done => \A w \in {v \in BareWords : ~IsDigit(v[1])} :
                input_lines = <<w>> => Returned(1, WordDocs(w))

(***************************************************************************)
(* C11.  DocId assignment: during a build the i-th document drawn from the *)
(* source (0-based) is recorded under DocId i, and the reader opened on    *)
(* the build has exactly N doc_infos, the i-th holding the url and title   *)
(* of the i-th source document (no title: the empty string), for every     *)
(* N >= 0 and for every block size.                                        *)
(***************************************************************************)
\* the maps DocId -> positions the builder holds for term t: that of the
\* local index and those of the spilled blocks
Recorded(t) ==
    {MapGet(local_index, t, EmptyMap)}
    \cup UNION {{entry[2] : entry \in {e \in Range(temp_dir[k]) : e[1] = t}} :
                    k \in DOMAIN temp_dir}

\* the doc_infos a reader loads from a build of the source: one per document
InfosOfSource ==
    [i \in 1..Len(source) |-> [url |-> source[i][1], title |-> source[i][2]]]

C11_DocIds ==
    /\ pc = "indexing" =>
        /\ Len(doc_infos) = docs_processed
        /\ \A i \in 1..docs_processed : doc_infos[i] = <<source[i][1], source[i][2]>>
        /\ \A d \in 0..(docs_processed - 1) : \A t \in Range(DocTokens(d)) :
              \E m \in Recorded(t) : d \in DOMAIN m /\ m[d] = TruePositions(d, t)
        /\ \A t \in EmittedTerms : \A m \in Recorded(t) : \A d \in DOMAIN m :
              d < docs_processed /\ t \in Range(DocTokens(d))
    /\ pc = "open" => r_doc_infos = InfosOfSource
    /\ pc = "built" =>
        \A block_size \in 1..(MaxDocs + 1) :
            load_docs(write_docs_index(BuiltBy(source, block_size).doc_infos)).doc_infos
                = InfosOfSource

\* a reader is open on a build of MaxDocs documents, the second without a
\* title, that spilled a block inside the loop and one after it
C11_Witness ==
    /\ pc = "open"
    /\ Len(source) = MaxDocs
    /\ block_id >= 2
    /\ source[2][2] = <<>>
    /\ Len(r_doc_infos) = MaxDocs

\* a reader is open on a build of no documents
C11_WitnessEmpty == pc = "open" /\ source = <<>> /\ r_doc_infos = <<>>

(***************************************************************************)
(* C12.  A document whose text is empty or tokenizes to no token still     *)
(* has a DocId and a DocInfo record, the DocIds of later documents are not *)
(* shifted, it is in no term's posting list, it is in the universe of the  *)
(* engine, and !t returns it for every term t.                             *)
(***************************************************************************)
ZeroTokenDocs == {d \in Universe : DocTokens(d) = <<>>}

\* the DocIds of the posting list of a term of the dictionary
PostedDocs(t) == DOMAIN Postings(t, cursor).map

C12_ZeroTokenDocuments ==
    (Done /\ input_lines \in ComplementBatches) =>
        /\ r_doc_infos = InfosOfSource
        /\ \A t \in DOMAIN term_dict : PostedDocs(t) \cap ZeroTokenDocs = {}
        /\ \A d \in Universe \ ZeroTokenDocs : \A t \in Range(DocTokens(d)) : d \in PostedDocs(t)
        /\ ZeroTokenDocs \subseteq all_docs
        /\ ~results[1].raised
        /\ ZeroTokenDocs \subseteq results[1].docs

\* !a has been run on the corpus whose second document is whitespace only,
\* with documents after it
C12_Witness ==
    /\ Done
    /\ source = SmallSource
    /\ input_lines = <<Q_Not(W_a)>>
    /\ ZeroTokenDocs = {1}
    /\ 1 \in results[1].docs

\* !b has been run on the corpus whose fifth document has the empty text
C12_WitnessEmptyText ==
    /\ Done
    /\ source = LetterSource
    /\ input_lines = <<Q_Not(W_b)>>
    /\ source[5][3] = <<>>
    /\ 4 \in results[1].docs

(***************************************************************************)
(* C13.  Dictionary uniqueness and order: after a build the serialized     *)
(* terms of the entries of index.dict are strictly ascending bytewise, and *)
(* there is exactly one entry for each distinct term the tokenizer         *)
(* emitted, terms longer than 255 bytes included.                          *)
(***************************************************************************)
\* the serialized terms of the entries of index.dict, in file order
DictTerms == [i \in 1..Len(dict_file.entries) |-> dict_file.entries[i].term]

StrictlyAscendingTerms ==
    \A i \in 1..(Len(DictTerms) - 1) : BytesLess(DictTerms[i], DictTerms[i + 1])

OneEntryPerTerm ==
    /\ Len(DictTerms) = Cardinality(EmittedTerms)
    /\ Range(DictTerms) = EmittedTerms

C13_DictionaryOrder ==
    pc = "built" => (StrictlyAscendingTerms /\ OneEntryPerTerm /\ dict_file.count = Len(DictTerms))

\* the same when no emitted term is longer than 255 bytes
DictionaryOfShortTerms ==
    (pc = "built" /\ \A t \in EmittedTerms : ByteLen(t) <= 255)
        => (StrictlyAscendingTerms /\ OneEntryPerTerm /\ dict_file.count = Len(DictTerms))

\* a build over a term of 255 bytes and a term of 256 bytes with the same
\* first 255 bytes wrote two entries with one serialized term
TwoEntriesOneTerm ==
    /\ pc = "built"
    /\ EmittedTerms = {LONG255, LONG256}
    /\ DictTerms = <<LONG255, LONG255>>

\* a build over a 256-byte term whose last character straddles the limit
\* wrote 255 bytes that end inside the character, and no reader opens on them
CutTermUnreadable ==
    /\ pc = "failed"
    /\ source = SourceOf(<<LONGCUT>>)
    /\ dict_file.entries[1].term = <<"v254", "xC2">>
    /\ dict_file.entries[1].term_len = 255
    /\ load_docs(docs_file).ok /\ ~load_dict(dict_file).ok

(***************************************************************************)
(* C14.  Posting block well-formedness: after a build, for every entry     *)
(* (term, offset, doc_count) of the dictionary the block of index.postings *)
(* at offset decodes to exactly doc_count entries whose DocIds are         *)
(* strictly ascending and lie in [0, N), each with freq >= 1 positions     *)
(* that are strictly ascending.                                            *)
(***************************************************************************)
NoNumbers(offset) == [ok |-> FALSE, numbers |-> <<>>, offset |-> offset]

PrependNumber(d, rest) ==
    [ok |-> rest.ok, numbers |-> <<d.number>> \o rest.numbers, offset |-> rest.offset]

\* n varbyte numbers of data from offset on
RECURSIVE ReadNumbers(_, _, _)
ReadNumbers(data, offset, n) ==
    IF n = 0 THEN [ok |-> TRUE, numbers |-> <<>>, offset |-> offset]
    ELSE IF ~decode_varbyte_stream(data, offset).ok THEN NoNumbers(offset)
    ELSE PrependNumber(decode_varbyte_stream(data, offset),
                       ReadNumbers(data, decode_varbyte_stream(data, offset).offset, n - 1))

NoEntries(offset) == [ok |-> FALSE, entries |-> <<>>, offset |-> offset]

PrependEntry(head, positions, rest) ==
    [ok |-> rest.ok,
     entries |-> <<[delta |-> head.numbers[1], freq |-> head.numbers[2],
                    pos_deltas |-> positions.numbers]>> \o rest.entries,
     offset |-> rest.offset]

\* n entries (DocId delta, freq, freq position deltas) of data from offset on
RECURSIVE ReadEntries(_, _, _)
ReadEntries(data, offset, n) ==
    IF n = 0 THEN [ok |-> TRUE, entries |-> <<>>, offset |-> offset]
    ELSE IF ~ReadNumbers(data, offset, 2).ok THEN NoEntries(offset)
    ELSE IF ~ReadNumbers(data, ReadNumbers(data, offset, 2).offset,
                         ReadNumbers(data, offset, 2).numbers[2]).ok
    THEN NoEntries(offset)
    ELSE PrependEntry(ReadNumbers(data, offset, 2),
                      ReadNumbers(data, ReadNumbers(data, offset, 2).offset,
                                  ReadNumbers(data, offset, 2).numbers[2]),
                      ReadEntries(data,
                                  ReadNumbers(data, ReadNumbers(data, offset, 2).offset,
                                              ReadNumbers(data, offset, 2).numbers[2]).offset,
                                  n - 1))

\* the block at offset: its leading count, then that many entries
BlockAt(data, offset) ==
    IF ~decode_varbyte_stream(data, offset).ok THEN NoEntries(offset)
    ELSE ReadEntries(data, decode_varbyte_stream(data, offset).offset,
                     decode_varbyte_stream(data, offset).number)

StrictlyAscending(numbers) ==
    \A i \in 1..(Len(numbers) - 1) : numbers[i] < numbers[i + 1]

\* where the block of the i-th entry of the dictionary ends: at the next
\* entry's offset, or at the end of the file
BlockEnd(i) ==
    IF i < Len(dict_file.entries) THEN dict_file.entries[i + 1].offset ELSE Len(post_file)

WellFormedBlock(i) ==
    LET entry == dict_file.entries[i]
        block == BlockAt(post_file, entry.offset)
        doc_ids == decode_delta([k \in 1..Len(block.entries) |-> block.entries[k].delta])
    IN /\ block.ok
       /\ Len(block.entries) = entry.doc_count
       /\ block.offset = BlockEnd(i)
       /\ StrictlyAscending(doc_ids)
       /\ \A k \in 1..Len(doc_ids) : doc_ids[k] >= 0 /\ doc_ids[k] < Len(source)
       /\ \A k \in 1..Len(block.entries) :
             /\ block.entries[k].freq >= 1
             /\ Len(block.entries[k].pos_deltas) = block.entries[k].freq
             /\ StrictlyAscending(decode_delta(block.entries[k].pos_deltas))
             /\ block.entries[k].pos_deltas[1] >= 0

C14_PostingBlocks ==
    pc = "built" => \A i \in 1..Len(dict_file.entries) : WellFormedBlock(i)

\* a build of MaxDocs documents wrote a block of two DocIds, the first not
\* 0, one of them with MaxTokens positions
C14_Witness ==
    /\ pc = "built"
    /\ Len(source) = MaxDocs
    /\ \E i \in 1..Len(dict_file.entries) :
          /\ dict_file.entries[i].doc_count = 2
          /\ BlockAt(post_file, dict_file.entries[i].offset).entries[1].delta > 0
          /\ \E k \in 1..2 :
                BlockAt(post_file, dict_file.entries[i].offset).entries[k].freq = MaxTokens

(***************************************************************************)
(* C15.  Index determinism: builds over the same document sequence with    *)
(* the same tokenizer output write byte-identical index.dict and           *)
(* index.postings, however the documents fall into blocks.                 *)
(***************************************************************************)
\* the block sizes under which the source falls into one block per
\* document, into blocks of several documents, and into a single block
BlockSizes == 1..(MaxDocs + 1)

SameDictAndPostings(block_size) ==
    /\ index_files(BuiltBy(source, block_size)).dict = dict_file
    /\ index_files(BuiltBy(source, block_size)).post = post_file

C15_Determinism ==
    pc = "built" => \A block_size \in BlockSizes : SameDictAndPostings(block_size)

\* a build of MaxDocs documents that spilled two blocks, with a term in
\* documents of both, which falls into MaxDocs blocks when BLOCK_SIZE is 1
C15_Witness ==
    /\ pc = "built"
    /\ Len(source) = MaxDocs
    /\ block_id = 2
    /\ W_a \in Range(DocTokens(0))
    /\ W_a \in Range(DocTokens(MaxDocs - 1))
    /\ BuiltBy(source, 1).block_id = MaxDocs
    /\ BuiltBy(source, MaxDocs + 1).block_id = 1

(***************************************************************************)
(* C16.  Version check: an index directory in which a file's header        *)
(* carries a version other than 3 is rejected; no reader is produced.      *)
(***************************************************************************)
C16_VersionCheck ==
    pc = "open" =>
        (docs_file.version = VERSION /\ dict_file.version = VERSION /\ PostVersion = VERSION)

\* a reader on files that all carry version 4 has answered a lookup with
\* postings
ReaderOfNewerVersion ==
    /\ pc = "open"
    /\ docs_file.version = VERSION + 1
    /\ dict_file.version = VERSION + 1
    /\ PostVersion = VERSION + 1
    /\ looked.called /\ looked.ok /\ DOMAIN looked.map # {}

\* no version is looked at when the directory is opened: the reader fails
\* exactly when the magic of index.docs or of index.dict is wrong
VersionsIgnored ==
    /\ pc = "open" => (docs_file.magic = MAGIC_DOCS /\ dict_file.magic = MAGIC_DICT)
    /\ pc = "failed" => (docs_file.magic # MAGIC_DOCS \/ dict_file.magic # MAGIC_DICT)

(***************************************************************************)
(* C17.  Magic check: opening an index directory fails when the first 4    *)
(* bytes of index.docs are not DOCS, or of index.dict are not DICT, or of  *)
(* index.postings are not POST; no reader is produced.                     *)
(***************************************************************************)
C17_MagicCheck ==
    pc = "open" =>
        (docs_file.magic = MAGIC_DOCS /\ dict_file.magic = MAGIC_DICT /\ PostMagic = MAGIC_POST)

\* the magic of index.docs and of index.dict is checked
DocsAndDictMagicChecked ==
    pc = "open" => (docs_file.magic = MAGIC_DOCS /\ dict_file.magic = MAGIC_DICT)

\* a reader on an index.postings without the magic has answered a lookup
\* with postings
ReaderOfBadPostings ==
    /\ pc = "open"
    /\ PostMagic = BAD_MAGIC
    /\ looked.called /\ looked.ok /\ DOMAIN looked.map # {}

(***************************************************************************)
(* C18.  Output directory after a successful build: when build_index has   *)
(* returned normally, out_dir holds exactly index.docs, index.dict and     *)
(* index.postings; the block files and the temp directory are gone and     *)
(* nothing that was in out_dir before the build is left.                   *)
(***************************************************************************)
C18_OutputDirectory ==
    pc = "built" =>
        /\ out_dir = IndexNames
        /\ temp_dir = EmptyMap
        /\ out_dir \cap (before \ IndexNames) = {}
        /\ docs_file = index_files(BuiltFrom(source)).docs
        /\ dict_file = index_files(BuiltFrom(source)).dict
        /\ post_file = index_files(BuiltFrom(source)).post

\* a build that spilled two blocks has returned; out_dir held the index of
\* an earlier build, a stray file and a temp directory with a block file
\* when build_index was called
C18_Witness ==
    /\ pc = "built"
    /\ before = IndexNames \cup {"notes.txt", "temp"}
    /\ block_id >= 2
    /\ docs_file # write_docs_index(BuiltFrom(OldSource).doc_infos)

(***************************************************************************)
(* C19.  Tokenizer death: when the tokenizer process has died, before the  *)
(* request line is written or while the response is read before the        *)
(* __END_DOC__ sentinel, tokenize returns the empty list, never a partial  *)
(* token list.                                                             *)
(***************************************************************************)
C19_TokenizerDeath ==
    (tokenized.called /\ tokenized.dead) => tokenized.tokens = <<>>

\* the half of the claim for a process that was dead before the call
DeadBeforeRequestReturnsEmpty ==
    (tokenized.called /\ tokenized.dead_before) => tokenized.tokens = <<>>

\* tokenize returned the first token of a two-token text from a process that
\* died while it answered
PartialTokenList ==
    /\ tokenized.called /\ tokenized.dead /\ ~tokenized.dead_before
    /\ tokenized.text = Join(<<W_a, W_b>>)
    /\ tokenized.tokens = <<W_a>>

(***************************************************************************)
(* C20.  Builder abort on tokenizer failure: when the tokenizer process    *)
(* dies during a build, build_index aborts with an error; it never returns *)
(* normally with an index in which documents processed after the failure   *)
(* are recorded with no tokens or with a part of their tokens.             *)
(***************************************************************************)
\* the files are those of the build of the source with a live tokenizer
FilesOfLiveBuild ==
    /\ docs_file = index_files(BuiltFrom(source)).docs
    /\ dict_file = index_files(BuiltFrom(source)).dict
    /\ post_file = index_files(BuiltFrom(source)).post

\* the tokenizer process exited during the build: before or during the last
\* tokenize call
DiedInBuild == tokenized.called /\ tokenized.dead

C20_AbortOnTokenizerDeath ==
    pc = "built" => (~DiedInBuild /\ FilesOfLiveBuild)

\* build_index has returned normally after the tokenizer died, with an index
\* that lacks tokens of the source
BuiltWithMissingTokens ==
    /\ pc = "built"
    /\ DiedInBuild
    /\ ~FilesOfLiveBuild

\* build_index raises exactly when a request was written to a dead process
\* (the exception of close() in the finally block), and then no index file
\* is written and the temp directory stays
AbortOnlyAfterFailedWrite ==
    /\ pc \in {"built", "aborted"} => (pc = "aborted" <=> tokenizer.pending)
    /\ pc = "aborted" => (out_dir = {"temp"} /\ docs_file = NoDocsFile)

(***************************************************************************)
(* C21.  Corrupt postings at query time: when the decoding of a term's     *)
(* postings block meets a truncated varbyte stream (the file ends inside   *)
(* a number or inside the block), get_postings yields empty postings for   *)
(* the term and execute returns a set: nothing is raised to the caller.    *)
(***************************************************************************)
\* the file ends inside the block of term t: after its first byte and
\* before its last
EndsInsideBlock(t) ==
    /\ t \in DOMAIN term_dict
    /\ term_dict[t].offset < Len(post_file)
    /\ ~BlockAt(post_file, term_dict[t].offset).ok

C21_CorruptPostings ==
    /\ (looked.called /\ EndsInsideBlock(looked.term)) =>
           (looked.ok /\ looked.map = EmptyMap)
    /\ \A i \in 1..Len(results) : ~results[i].raised

\* get_postings of a term whose block the file cuts has raised
LookupRaised == looked.called /\ EndsInsideBlock(looked.term) /\ ~looked.ok

\* execute of the query b has raised on a file that ends inside the block
\* of b
ExecuteRaised ==
    /\ Len(results) = 1
    /\ results[1].query = W_b
    /\ EndsInsideBlock(W_b)
    /\ results[1].raised

\* the part that holds: a lookup raises only when the file ends inside the
\* term's block; when the file ends where the block begins the postings are
\* empty, and a block the file holds whole is returned in full
RaisesOnlyInsideBlock ==
    looked.called =>
        /\ looked.ok <=> ~EndsInsideBlock(looked.term)
        /\ (looked.term \in DOMAIN term_dict /\ term_dict[looked.term].offset >= Len(post_file))
              => looked.map = EmptyMap
        /\ (looked.ok /\ looked.term \in DOMAIN term_dict
            /\ term_dict[looked.term].offset < Len(post_file))
              => SameMap(looked.map, TruePostings(looked.term))

(***************************************************************************)
(* C22.  Best-effort evaluation of malformed queries: the evaluation of    *)
(* the RPN never raises on stack underflow (&& or || with fewer than two   *)
(* operands and ! with none leave the stack unchanged), and when it ends   *)
(* the stack holds at most one set, which is the result (the empty set     *)
(* when the stack is empty).                                               *)
(***************************************************************************)
\* the stack of _solve_rpn when its loop has ended for line i
FinalStack(i) ==
    SolveLoop(ShuntingYard(results[i].processed),
              [ok |-> TRUE, stack |-> <<>>, fpos |-> 0]).stack

\* the operators on a stack that is too short for them
UnderflowIsNoOp ==
    \A stack \in {<<>>, <<{0}>>} : \A op \in {AND, OR, NOT} :
        (op = NOT => stack = <<>>) =>
            LET z == [ok |-> TRUE, stack |-> stack, fpos |-> cursor]
            IN SolveStep(z, Tok("OP", op, 0)) = z

C22_BestEffort ==
    (Done /\ input_lines \in MalformedBatches) =>
        /\ ~results[1].raised
        /\ Len(FinalStack(1)) <= 1
        /\ results[1].docs = (IF FinalStack(1) = <<>> THEN {} ELSE FinalStack(1)[1])
        /\ UnderflowIsNoOp
        /\ ~execute(<<>>).raised /\ execute(<<>>).docs = {}

\* "&& a ||" has been run: both operators met a short stack and the result
\* is the set of a
C22_Witness ==
    /\ Done
    /\ source = LetterSource
    /\ input_lines = <<Join(<<AND, W_a, OR>>)>>
    /\ Len(FinalStack(1)) = 1
    /\ results[1].docs = DOMAIN TruePostings(W_a)

\* ") !" has been run: the stack is empty at the end and the result is the
\* empty set
C22_WitnessEmptyStack ==
    /\ Done
    /\ input_lines = <<Join(<<RPAREN, NOT>>)>>
    /\ FinalStack(1) = <<>>
    /\ results[1].docs = {}

(***************************************************************************)
(* C23.  Codec round-trip: for every ascending sequence xs of non-negative *)
(* integers, encode_delta, encode_varbyte of each gap, the bytes joined,   *)
(* then successive decode_varbyte_stream calls (each from the offset the   *)
(* call before returned) and decode_delta restore exactly xs, and the      *)
(* last offset is the length of the encoded bytes.                         *)
(***************************************************************************)
\* xs is ascending and holds no negative number
Ascending(xs) ==
    /\ \A i \in 1..Len(xs) : xs[i] >= 0
    /\ \A i \in 1..(Len(xs) - 1) : xs[i] <= xs[i + 1]

C23_CodecRoundTrip ==
    /\ (codec.stage = "input" /\ Ascending(codec.xs)) =>
          ~(\E i \in 1..Len(codec.xs) : encode_varbyte_raises(encode_delta(codec.xs)[i]))
    /\ (codec.stage = "encoded" /\ Ascending(codec.xs)) =>
          /\ codec.numbers = Take(codec.deltas, Len(codec.numbers))
          /\ Len(codec.numbers) = Len(codec.xs) => codec.offset = Len(codec.bytes)
    /\ (codec.stage = "decoded" /\ Ascending(codec.xs)) =>
          (codec.numbers = codec.xs /\ codec.offset = Len(codec.bytes))
    /\ codec.stage = "raised" => ~Ascending(codec.xs)

\* a list of MaxNumbers ascending numbers with a repeated number and a
\* number of three bytes has gone through the codec
C23_Witness ==
    /\ codec.stage = "decoded"
    /\ Len(codec.xs) = MaxNumbers
    /\ codec.xs[1] = codec.xs[2]
    /\ codec.xs[MaxNumbers] = 16384
    /\ codec.numbers = codec.xs
    /\ Len(codec.bytes) > MaxNumbers

(***************************************************************************)
(* C24.  Varbyte shape: for every n >= 0 encode_varbyte(n) has exactly     *)
(* ceil(bits(n) / 7) bytes (the one byte 0 for n = 0), every byte but the  *)
(* last has its high bit set and the last has it clear, the 7-bit groups   *)
(* are in little-endian order; a negative n is rejected with an error.     *)
(***************************************************************************)
\* the number of binary digits of n > 0
RECURSIVE Bits(_)
Bits(n) == IF n = 0 THEN 0 ELSE 1 + Bits(n \div 2)

\* ceil(bits(n) / 7), and 1 for n = 0
VarbyteLength(n) == IF n = 0 THEN 1 ELSE (Bits(n) + 6) \div 7

RECURSIVE Power(_, _)
Power(b, e) == IF e = 0 THEN 1 ELSE b * Power(b, e - 1)

VarbyteShape(n, bytes) ==
    /\ Len(bytes) = VarbyteLength(n)
    /\ \A i \in 1..(Len(bytes) - 1) : bytes[i] >= 128 /\ bytes[i] <= 255
    /\ bytes[Len(bytes)] >= 0 /\ bytes[Len(bytes)] < 128
    /\ \A i \in 1..Len(bytes) : bytes[i] % 128 = (n \div Power(128, i - 1)) % 128
    /\ n = 0 => bytes = <<0>>

C24_VarbyteShape ==
    Len(codec.xs) = 1 =>
        /\ (codec.stage = "encoded" \/ codec.stage = "decoded") =>
              (codec.xs[1] >= 0 /\ VarbyteShape(codec.xs[1], codec.bytes))
        /\ codec.stage = "raised" => codec.xs[1] < 0
        /\ (codec.stage = "input" /\ codec.xs[1] < 0) => encode_varbyte_raises(codec.xs[1])

\* the number 16384 has been written in three bytes
C24_Witness ==
    /\ codec.stage = "encoded"
    /\ codec.xs = <<16384>>
    /\ codec.bytes = <<128, 128, 1>>

\* the number -1 has been rejected
C24_WitnessNegative == codec.stage = "raised" /\ codec.xs = <<-1>>

\* the number 1 has been written in one byte
C24_WitnessOne == codec.stage = "encoded" /\ codec.xs = <<1>> /\ codec.bytes = <<1>>

\* C25: on a live tokenizer that answers every input line with its token
\* lines and one __END_DOC__ line, every tokenize call with a non-empty text
\* writes one line (its only newline is the last character), reads up to and
\* including one sentinel, returns the tokens of its own text in order, and
\* leaves no unread line for the next call; a call with an empty text writes
\* nothing and returns no token.
NewlinesIn(bytes) == Cardinality({i \in 1..Len(bytes) : bytes[i] = "\n"})

CallAligned(call) ==
    /\ call.ended
    /\ call.unread = <<>>
    /\ call.tokens = ExternalTokenizer(call.text)
    /\ call.tokens = TokenizerClient_tokenize(call.text)
    /\ IF call.text = <<>> THEN call.written = <<>>
       ELSE /\ NewlinesIn(call.written) = 1
            /\ call.written[Len(call.written)] = "\n"

C25_TokenizerAlignment ==
    /\ pipe.unread = <<>>
    /\ \A i \in 1..Len(pipe.calls) : CallAligned(pipe.calls[i])

\* two calls were made, the first with a newline inside its text and the
\* second with other tokens
C25_Witness ==
    /\ Len(pipe.calls) = 2
    /\ pipe.calls[1].text = <<"a", "\n", "b">>
    /\ pipe.calls[1].tokens = <<<<"a">>, <<"b">>>>
    /\ pipe.calls[2].tokens = <<<<"a">>, <<"_", "_", "e", "n", "d", "_", "d", "o", "c", "_", "_">>,
                                <<"b">>>>

\* C26: get_postings, which reads the file in chunks of BufferSize bytes and
\* refills its buffer, returns for every term of the dictionary the map that
\* decoding its whole block from the contiguous bytes of the file gives, for
\* blocks longer than a chunk and for the block that ends the file; no
\* number is decoded from a buffer that ends inside it (that decode would
\* raise), so no call raises.
MapOfBlock(block) ==
    LET doc_ids == decode_delta([k \in 1..Len(block.entries) |-> block.entries[k].delta])
    IN [d \in Range(doc_ids) |->
           decode_delta(block.entries[CHOOSE k \in 1..Len(doc_ids) : doc_ids[k] = d].pos_deltas)]

\* a number of the block of term t lies across the end of a chunk
StraddlesChunk(t) ==
    \E k \in 1..Len(post_file) :
        /\ term_dict[t].offset + k * BufferSize < BlockAt(post_file, term_dict[t].offset).offset
        /\ post_file[term_dict[t].offset + k * BufferSize] >= 128

C26_SlidingBuffer ==
    (looked.called /\ looked.term \in DOMAIN term_dict) =>
        /\ looked.ok
        /\ BlockAt(post_file, term_dict[looked.term].offset).ok
        /\ SameMap(looked.map, MapOfBlock(BlockAt(post_file, term_dict[looked.term].offset)))

\* the block of a runs over more than two chunks, numbers of it lie across
\* chunk ends, the file goes on after it, and it was read back
C26_Witness ==
    /\ looked.called /\ looked.term = W_a /\ looked.ok
    /\ term_dict[W_b].offset - term_dict[W_a].offset > 2 * BufferSize
    /\ StraddlesChunk(W_a)
    /\ DOMAIN looked.map = {200, 3000000, 300000000}
    /\ looked.map[300000000] = <<70000, 300000000>>

\* the block that ends the file is longer than a chunk and was read back
C26_WitnessEndOfFile ==
    /\ looked.called /\ looked.term = W_b /\ looked.ok
    /\ Len(post_file) - term_dict[W_b].offset > BufferSize
    /\ DOMAIN looked.map = {7, 300000}

(***************************************************************************)
(* C27.  During a build the k-th spilled block holds exactly the postings  *)
(* of the documents with DocIds in [k*BLOCK_SIZE, (k+1)*BLOCK_SIZE), the   *)
(* in-memory map is empty after each spill (it holds the documents         *)
(* consumed since the last spill), the blocks are numbered 0..block_id-1   *)
(* without gaps, the DocId sets of a term in different blocks are disjoint *)
(* and the map merge_blocks writes for a term is the union of its maps in  *)
(* the blocks.                                                             *)
(***************************************************************************)
\* the index of the documents lo..hi of the source: term -> DocId -> positions
RangeIndex(lo, hi) ==
    [t \in UNION {Range(DocTokens(d)) : d \in {e \in Universe : lo <= e /\ e <= hi}} |->
        [d \in {e \in Universe : lo <= e /\ e <= hi /\ t \in Range(DocTokens(e))} |->
            TruePositions(d, t)]]

\* the map of term t in block k of temp, empty when the block has no t
BlockMapOf(temp, k, t) ==
    IF \E e \in Range(temp[k]) : e[1] = t
    THEN (CHOOSE e \in Range(temp[k]) : e[1] = t)[2]
    ELSE EmptyMap

UnionOfBlocks(temp, t) ==
    [d \in UNION {DOMAIN BlockMapOf(temp, k, t) : k \in DOMAIN temp} |->
        BlockMapOf(temp, CHOOSE k \in DOMAIN temp : d \in DOMAIN BlockMapOf(temp, k, t), t)[d]]

DisjointBlocks(temp, t) ==
    \A k1, k2 \in DOMAIN temp :
        k1 # k2 => DOMAIN BlockMapOf(temp, k1, t) \cap DOMAIN BlockMapOf(temp, k2, t) = {}

\* index.dict and index.postings hold for term t an entry whose block
\* decodes to doc_map
WrittenFor(files, t, doc_map) ==
    \E i \in 1..Len(files.dict.entries) :
        /\ files.dict.entries[i].term = TruncateBytes(t, 255)
        /\ BlockAt(files.post, files.dict.entries[i].offset).ok
        /\ SameMap(MapOfBlock(BlockAt(files.post, files.dict.entries[i].offset)), doc_map)

\* the blocks b holds are those of the documents consumed
BlocksOfRanges(b) ==
    /\ DOMAIN b.temp_dir = 0..(b.block_id - 1)
    /\ \A k \in DOMAIN b.temp_dir :
          b.temp_dir[k] = save_temp_block(RangeIndex(k * BlockSize, (k + 1) * BlockSize - 1))

\* merge_blocks on the blocks of b writes for every term the union of its maps
MergeIsUnion(b) ==
    \A t \in EmittedTerms :
        /\ DisjointBlocks(b.temp_dir, t)
        /\ SameMap(UnionOfBlocks(b.temp_dir, t), TruePostings(t))
        /\ WrittenFor(merge_blocks(b.temp_dir, b.block_id), t, UnionOfBlocks(b.temp_dir, t))

C27_WitnessEmptyBlock ==
    /\ pc = "indexing"
    /\ docs_processed = BlockSize
    /\ temp_dir = (0 :> <<>>)
    /\ local_index = EmptyMap

(***************************************************************************)
(* C28.  get_postings seeks and reads through the one cursor of the        *)
(* reader.  A call that no other call overlaps returns its term's own      *)
(* postings, wherever earlier calls left the cursor; a call that another   *)
(* call overlaps can decode bytes outside its block and return postings    *)
(* that are not its term's.                                                *)
(***************************************************************************)
Finished(f) == f.stage \in {"done", "raised"}

OwnPostings(f) ==
    /\ f.stage = "done"
    /\ SameMap(f.result, get_postings(term_dict, post_file, f.term, 0).map)
    /\ f.term \in EmittedTerms => SameMap(f.result, TruePostings(f.term))
    /\ f.term \notin EmittedTerms => f.result = EmptyMap

C28_SharedCursor ==
    \A th \in Threads :
        (Finished(fetches[th]) /\ ~fetches[th].overlapped) => OwnPostings(fetches[th])

\* a call that overlapped another one returned, without raising, postings
\* that are not those of its term
C28_Witness ==
    \E th \in Threads :
        /\ fetches[th].stage = "done"
        /\ fetches[th].overlapped
        /\ fetches[th].term = W_a
        /\ ~SameMap(fetches[th].result, TruePostings(W_a))
        /\ SameMap(fetches[th].result, TruePostings(W_b))

\* a call that overlapped none returned its postings after an overlapped
\* call of the same thread had gone wrong and left the cursor elsewhere
C28_WitnessAfterRace ==
    \E th \in Threads :
        /\ fetches[th].stage = "done"
        /\ ~fetches[th].overlapped
        /\ fetches[th].calls = 2
        /\ fetches[th].term = W_b
        /\ cursor # 0
        /\ \E o \in Threads \ {th} : fetches[o].overlapped /\ Finished(fetches[o])
                                        /\ ~OwnPostings(fetches[o])

\* every call returns its term's own postings
AllFetchesRight == \A th \in Threads : Finished(fetches[th]) => OwnPostings(fetches[th])

(***************************************************************************)
(* C29.  A bare word that begins with PHRASE: or NUM: is evaluated as a    *)
(* TERM: it is not treated as a phrase, not taken as the distance of a     *)
(* '/' suffix, not dropped, and execute does not raise.                    *)
(***************************************************************************)
C29_TokenKinds ==
    \A i \in 1..Len(results) : \A c \in PrefixCases :
        results[i].query = c[1] =>
            /\ tokenize_query(c[1]) \in {<<W_PhraseA>>, <<W_Num5>>, <<W_NumX>>,
                                          <<W_a, W_Num5>>, <<W_a, SLASH, W_Num5>>,
                                          <<W_a, SLASH, W_NumX>>}
            /\ ~results[i].raised
            /\ results[i].processed = c[2]

\* the lexer matches each of these words as one word token
PrefixWordsAreWords ==
    \A i \in 1..Len(results) : \A c \in PrefixCases :
        results[i].query = c[1] =>
            tokenize_query(c[1]) \in {<<W_PhraseA>>, <<W_Num5>>, <<W_NumX>>,
                                      <<W_a, W_Num5>>, <<W_a, SLASH, W_Num5>>,
                                      <<W_a, SLASH, W_NumX>>}

\* the word PHRASE:a was evaluated as the phrase a
PrefixWordAsPhrase ==
    /\ Done /\ input_lines = <<W_PhraseA>>
    /\ results[1].processed = <<Tok("PHRASE", W_a, 0)>>
    /\ results[1].docs # {}

\* the word NUM:5 was dropped
PrefixWordDropped ==
    /\ Done /\ input_lines = <<Q_Adj(W_a, W_Num5)>>
    /\ results[1].processed = <<Tok("TERM", W_a, 0)>>

\* the word NUM:5 was taken as the distance of a / suffix
PrefixWordAsDistance ==
    /\ Done /\ input_lines = <<W_a \o <<" ", "/", " ">> \o W_Num5>>
    /\ results[1].processed = <<Tok("PROXIMITY", W_a, 5)>>

\* execute raised on a / NUM:x
PrefixWordRaises ==
    /\ Done /\ input_lines = <<W_a \o <<" ", "/", " ">> \o W_NumX>>
    /\ results[1].raised

(***************************************************************************)
(* C30.  Every call of search of app.py reads its query's whole response,  *)
(* sentinel included, on every return path, so that the first line the     *)
(* next call reads is the header of its own response and no result is      *)
(* attributed to a later query.                                            *)
(***************************************************************************)
CallOwnsItsLines(i) ==
    /\ web.calls[i].header.call = i
    /\ web.calls[i].header.kind \in {"Found", "Error"}
    /\ \A k \in 1..Len(web.calls[i].results) :
          web.calls[i].results[k].call = i /\ web.calls[i].results[k].kind = "result"

\* the calls came one after the other: none began while another was running
Sequential == \A i \in 1..Len(web.calls) : web.calls[i].alone

\* the lines of process.stdout that no readline has returned
Unread == web.buffer \o web.pipe

C30_WebAlignment ==
    Sequential =>
        \A i \in 1..Len(web.calls) :
            web.calls[i].stage = "returned"
                => (web.calls[i].unread = <<>> /\ CallOwnsItsLines(i))

\* calls that came one after the other are aligned as long as no query held
\* a newline and no header failed to start with Found
AlignedOnPlainQueries ==
    (\A i \in 1..Len(web.calls) :
        /\ "\n" \notin Range(web.calls[i].query)
        /\ web.calls[i].stage # "written" => web.calls[i].header.kind = "Found")
    => C30_WebAlignment

\* calls that came one after the other lose no line, and each of them reads
\* the lines in the order the engine wrote them
SequentialCallsLoseNothing == Sequential => web.lost = 0

\* a call returned at a header that does not start with Found and left the
\* sentinel unread; the next call read that sentinel as its header
StaleAfterError ==
    /\ Len(web.calls) = 2 /\ Sequential
    /\ web.calls[1].header.kind = "Error"
    /\ web.calls[1].unread = <<WebLine("END_QUERY", 1, 0)>>
    /\ web.calls[2].query = W_c
    /\ web.calls[2].stage = "returned"
    /\ web.calls[2].header = WebLine("END_QUERY", 1, 0)
    /\ web.calls[2].results = <<>> /\ web.calls[2].total = 0
    /\ Len(Unread) > 1

\* the query a\nb was answered twice; the call for c that followed returned
\* the documents of b
StaleAfterNewline ==
    /\ Len(web.calls) = 2 /\ Sequential
    /\ web.calls[1].query = W_a \o <<"\n">> \o W_b
    /\ web.calls[2].query = W_c
    /\ web.calls[2].stage = "returned"
    /\ web.calls[2].header.call = 1
    /\ web.calls[2].total = Cardinality(execute(W_b).docs)
    /\ web.calls[2].total # Cardinality(execute(W_c).docs)

\* two calls that overlap: the second wrote after the first and read first,
\* and each returned the documents of the other's query
CrossedAnswers ==
    /\ Len(web.calls) = 2 /\ ~Sequential
    /\ web.calls[1].query = W_a /\ web.calls[2].query = W_c
    /\ web.calls[1].stage = "returned" /\ web.calls[2].stage = "returned"
    /\ web.calls[1].header.call = 2 /\ web.calls[2].header.call = 1
    /\ \A k \in 1..Len(web.calls[1].results) : web.calls[1].results[k].call = 2
    /\ \A k \in 1..Len(web.calls[2].results) : web.calls[2].results[k].call = 1
    /\ Unread = <<>> /\ web.lost = 0

\* two calls that overlap: the call for c read the header of its answer
\* before the call for a read the first line of the answer of a, which the
\* engine wrote first
LaterLineFirst ==
    /\ Len(web.calls) = 2 /\ ~Sequential
    /\ web.calls[1].query = W_a /\ web.calls[2].query = W_c
    /\ web.calls[1].stage = "written" /\ web.calls[1].at = "chunk"
    /\ web.calls[1].chunk = EngineAnswer(W_a, 1, FALSE)
    /\ web.calls[2].stage = "reading"
    /\ web.calls[2].header = WebLine("Found", 2, Cardinality(execute(W_c).docs))

\* two calls that overlap: the call for a NOT b read its header, the call for
\* a read a result of a NOT b as its header and returned nothing, three lines
\* reached no call, and the call for a NOT b returned the documents of a
LostAnswer ==
    /\ Len(web.calls) = 2 /\ ~Sequential
    /\ web.calls[1].query = Q_Not(W_b) /\ web.calls[2].query = W_a
    /\ web.calls[1].stage = "returned" /\ web.calls[2].stage = "returned"
    /\ web.lost = 3
    /\ web.calls[2].header.kind = "result" /\ web.calls[2].header.call = 1
    /\ web.calls[2].results = <<>> /\ web.calls[2].total = 0
    /\ web.calls[1].header.call = 1
    /\ Len(web.calls[1].results) = Cardinality(execute(W_a).docs)
    /\ \A k \in 1..Len(web.calls[1].results) : web.calls[1].results[k].call = 2
    /\ Unread = <<>>

\* two calls that overlap: the call for a returned its own answer; the answer
\* of c came into the buffer with it, and the call for c waits in the read of
\* the pipe of readline of line 36 on a pipe that stays empty
WaitsForHeader ==
    /\ Len(web.calls) = 2 /\ ~Sequential
    /\ web.calls[1].query = W_a /\ web.calls[2].query = W_c
    /\ web.calls[1].stage = "returned" /\ CallOwnsItsLines(1)
    /\ Len(web.calls[1].results) = Cardinality(execute(W_a).docs)
    /\ web.calls[2].stage = "written" /\ web.calls[2].at = "pipe"
    /\ web.buffer = EngineAnswer(W_c, 2, FALSE)
    /\ web.pipe = <<>>

\* two calls that overlap: the call for c returned nothing at a line that is
\* not a header, and the call for a waits in the read of the pipe of readline
\* of line 47 on a pipe that stays empty
WaitsForSentinel ==
    /\ Len(web.calls) = 2 /\ ~Sequential
    /\ web.calls[1].query = W_a /\ web.calls[2].query = W_c
    /\ web.calls[1].stage = "reading" /\ web.calls[1].at = "pipe"
    /\ web.calls[2].stage = "returned"
    /\ web.calls[2].results = <<>> /\ web.calls[2].total = 0
    /\ web.pipe = <<>>

====
